---------------------------- MODULE Spec2Model ----------------------------
(***************************************************************************)
(* Model of gramps_webapi/api/resources/util.py: the mutation gateway      *)
(* (add_object, update_object), the family back-reference maintenance      *)
(* (add_family_update_refs, update_family_update_refs,                     *)
(* _fix_parent_handles), the profile builders (get_<kind>_profile_for_     *)
(* handle / _for_object, get_event_participants_for_handle), the parent    *)
(* walk of a place profile, fix_object_dict and get_extended_attributes.   *)
(*                                                                         *)
(* The object store (db_handle) is the state.  Every store method the      *)
(* code invokes during a call is appended to `calls`, so that "no write    *)
(* was issued" and "X was issued before Y" are statements about `calls`.   *)
(* A write issued before a call fails stays in the store: util.py itself   *)
(* never undoes one (the transaction object is only passed through).       *)
(***************************************************************************)
EXTENDS Integers, Sequences, FiniteSets, TLC

VARIABLES
    readonly,       \* db_handle.readonly
    write_surface,  \* TRUE iff the store has add_<kind>/commit_<kind>/set_birth_death_index
    person,         \* handle -> stored Person   (DOMAIN = handles in the store)
    family,         \* handle -> stored Family
    event,          \* handle -> stored Event    (a kind without linkage)
    others,         \* kind -> (handle -> stored object), for place / citation / media
    calls,          \* store methods invoked by the last call, in order
    last,           \* the last call: operation, incoming object, outcome
    clean,          \* TRUE while no failed call has left writes behind
    profile,        \* the last profile-for-handle call and its outcome
    walk,           \* the locals of the parent walk of a place profile in progress
    fixed           \* a payload and what fix_object_dict made of it

vars == <<readonly, write_surface, person, family, event, others, calls, last,
          clean, profile, walk, fixed>>

-----------------------------------------------------------------------------
(* Bounds *)

MaxChildren == 1    \* longest child_ref_list of an incoming Family
MaxListLen == 3     \* longest family_list the model follows

-----------------------------------------------------------------------------
(* Values *)

None == "None"
Blank == ""
OK == "ok"

PersonHandles == {"P1", "P2", "P3"}
FamilyHandles == {"F1", "F2"}
EventHandles == {"E1"}

PersonIds == {"I1", "I2", "I3"}
FamilyIds == {"G1", "G2"}
EventIds == {"V1", "V2"}

OtherKinds == {"place", "citation", "media"}
ProfileKinds == {"person", "family", "event"} \cup OtherKinds

\* sequences over S of length at most n
RECURSIVE SeqsUpTo(_, _)
SeqsUpTo(S, n) ==
    IF n = 0 THEN {<<>>}
    ELSE LET shorter == SeqsUpTo(S, n - 1)
         IN  shorter \cup {Append(s, x) : s \in {t \in shorter : Len(t) = n - 1}, x \in S}

Range(s) == {s[i] : i \in 1..Len(s)}

\* every order in which the elements of a set can be iterated
Orderings(S) ==
    {s \in [1..Cardinality(S) -> S] : \A i, j \in 1..Cardinality(S) : s[i] = s[j] => i = j}

Count(s, x) == Cardinality({i \in 1..Len(s) : s[i] = x})

-----------------------------------------------------------------------------
(* Python list and gramps Person list primitives *)

\* list.remove(x): drops the first occurrence (the caller checks membership)
RECURSIVE RemoveFirst(_, _)
RemoveFirst(s, x) ==
    IF s = <<>> THEN <<>>
    ELSE IF Head(s) = x THEN Tail(s)
    ELSE <<Head(s)>> \o RemoveFirst(Tail(s), x)

\* Person.add_family_handle / add_parent_family_handle: append unless present
AddIfAbsent(s, x) == IF x \in Range(s) THEN s ELSE Append(s, x)

\* Person.remove_parent_family_handle: remove if present, else nothing
RemoveIfPresent(s, x) == IF x \in Range(s) THEN RemoveFirst(s, x) ELSE s

-----------------------------------------------------------------------------
(* The store, as one call sees it *)

EmptyStore == [h \in {} |-> None]

Put(store, h, obj) == [k \in DOMAIN store \cup {h} |-> IF k = h THEN obj ELSE store[k]]

\* the working state of one call: the store, the transaction object the
\* caller supplied, the methods invoked so far, and the exception raised (OK
\* while none)
Ctx == [person |-> person, family |-> family, event |-> event, trans |-> None,
        calls |-> <<>>, err |-> OK]

\* the transaction objects a caller may supply
Transactions == {"T1", "T2"}

\* a store method is invoked; commit_<kind> and add_<kind> are given trans
Log(c, m, class, h) ==
    [c EXCEPT !.calls = Append(@, [m |-> m, class |-> class, h |-> h,
                                   trans |-> IF m \in {"commit", "add"} THEN c.trans
                                             ELSE None])]

Raise(c, e) == [c EXCEPT !.err = e]

StoreOf(c, class) ==
    CASE class = "person" -> c.person
      [] class = "family" -> c.family
      [] class = "event" -> c.event

\* db_handle.get_person_from_handle: HandleError when the handle is unknown
get_person_from_handle(c, h) ==
    LET c1 == Log(c, "get", "person", h)
    IN  IF h \in DOMAIN c.person THEN c1 ELSE Raise(c1, "HandleError")

\* db_handle.commit_person: the attribute is missing on a store without
\* write methods
commit_person(c, h, p) ==
    IF ~write_surface THEN Raise(c, "AttributeError")
    ELSE [Log(c, "commit", "person", h) EXCEPT !.person = Put(c.person, h, p)]

\* db_handle.commit_<kind> / add_<kind>, once looked up and called
commit_obj(c, m, obj) ==
    LET c1 == Log(c, m, obj.class, obj.handle)
    IN  CASE obj.class = "person" -> [c1 EXCEPT !.person = Put(c.person, obj.handle, obj)]
          [] obj.class = "family" -> [c1 EXCEPT !.family = Put(c.family, obj.handle, obj)]
          [] obj.class = "event" -> [c1 EXCEPT !.event = Put(c.event, obj.handle, obj)]

has_handle(c, obj) == obj.handle \in DOMAIN StoreOf(c, obj.class)

has_gramps_id(c, obj) ==
    \E h \in DOMAIN StoreOf(c, obj.class) : StoreOf(c, obj.class)[h].gramps_id = obj.gramps_id

-----------------------------------------------------------------------------
(* Family back-references, family new: add_family_update_refs *)

\* one pass of the parent loop
AddParentRef(c, obj, handle) ==
    IF c.err # OK \/ handle = None THEN c
    ELSE LET c1 == get_person_from_handle(c, handle)
         IN  IF c1.err # OK THEN c1
             ELSE commit_person(c1, handle,
                      [c1.person[handle] EXCEPT !.family_list = AddIfAbsent(@, obj.handle)])

\* the child loop, from the i-th child reference on
RECURSIVE AddChildRefs(_, _, _)
AddChildRefs(c, obj, i) ==
    IF c.err # OK \/ i > Len(obj.child_ref_list) THEN c
    ELSE LET ref == obj.child_ref_list[i]
             c1 == get_person_from_handle(c, ref)
             c2 == IF c1.err # OK THEN c1
                   ELSE commit_person(c1, ref,
                            [c1.person[ref] EXCEPT
                                !.parent_family_list = AddIfAbsent(@, obj.handle)])
         IN  AddChildRefs(c2, obj, i + 1)

add_family_update_refs(c, obj) ==
    AddChildRefs(
        AddParentRef(AddParentRef(c, obj, obj.father_handle), obj, obj.mother_handle),
        obj, 1)

-----------------------------------------------------------------------------
(* Family back-references, family modified: update_family_update_refs *)

\* faulty variant: the old parent keeps the family handle
FixRemove_keeps(c, obj, orig_handle) == c

FixRemove(c, obj, orig_handle) ==
    IF orig_handle = None THEN c
    ELSE LET c1 == get_person_from_handle(c, orig_handle)
         IN  IF c1.err # OK THEN c1
             ELSE IF obj.handle \notin Range(c1.person[orig_handle].family_list)
                  THEN Raise(c1, "ValueError: list.remove(x)")
             ELSE commit_person(c1, orig_handle,
                      [c1.person[orig_handle] EXCEPT
                          !.family_list = RemoveFirst(@, obj.handle)])

FixAppend(c, obj, new_handle) ==
    IF c.err # OK \/ new_handle = None THEN c
    ELSE LET c1 == get_person_from_handle(c, new_handle)
         IN  IF c1.err # OK THEN c1
             ELSE commit_person(c1, new_handle,
                      [c1.person[new_handle] EXCEPT
                          !.family_list = Append(@, obj.handle)])

\* faulty variant: an unchanged parent is unlinked and linked again
_fix_parent_handles_always(c, obj, orig_handle, new_handle) ==
    IF c.err # OK THEN c
    ELSE FixAppend(FixRemove(c, obj, orig_handle), obj, new_handle)

_fix_parent_handles(c, obj, orig_handle, new_handle) ==
    IF c.err # OK \/ orig_handle = new_handle THEN c
    ELSE FixAppend(FixRemove(c, obj, orig_handle), obj, new_handle)

\* the two child loops; `order` is the order in which Python iterates the set
RECURSIVE RemoveChildRefs(_, _, _, _)
RemoveChildRefs(c, obj, order, i) ==
    IF c.err # OK \/ i > Len(order) THEN c
    ELSE LET ref == order[i]
             c1 == get_person_from_handle(c, ref)
             c2 == IF c1.err # OK THEN c1
                   ELSE commit_person(c1, ref,
                            [c1.person[ref] EXCEPT
                                !.parent_family_list = RemoveIfPresent(@, obj.handle)])
         IN  RemoveChildRefs(c2, obj, order, i + 1)

RECURSIVE AddNewChildRefs(_, _, _, _)
AddNewChildRefs(c, obj, order, i) ==
    IF c.err # OK \/ i > Len(order) THEN c
    ELSE LET ref == order[i]
             c1 == get_person_from_handle(c, ref)
             c2 == IF c1.err # OK THEN c1
                   ELSE commit_person(c1, ref,
                            [c1.person[ref] EXCEPT
                                !.parent_family_list = AddIfAbsent(@, obj.handle)])
         IN  AddNewChildRefs(c2, obj, order, i + 1)

orig_set(obj_old) == Range(obj_old.child_ref_list)
new_set(obj) == Range(obj.child_ref_list)

\* faulty variant: the children are dealt with before the parents
update_family_update_refs_children_first(c, obj_old, obj, rem_order, add_order) ==
    LET c1 == RemoveChildRefs(c, obj, rem_order, 1)
        c2 == AddNewChildRefs(c1, obj, add_order, 1)
        c3 == _fix_parent_handles(c2, obj, obj_old.father_handle, obj.father_handle)
    IN  _fix_parent_handles(c3, obj, obj_old.mother_handle, obj.mother_handle)

update_family_update_refs(c, obj_old, obj, rem_order, add_order) ==
    LET c1 == _fix_parent_handles(c, obj, obj_old.father_handle, obj.father_handle)
        c2 == _fix_parent_handles(c1, obj, obj_old.mother_handle, obj.mother_handle)
        c3 == RemoveChildRefs(c2, obj, rem_order, 1)
    IN  AddNewChildRefs(c3, obj, add_order, 1)

-----------------------------------------------------------------------------
(* Mutation gateway: add_object, update_object *)

Forbidden == "403 Forbidden"
HandleExists == "ValueError: Handle already exists."
IdExists == "ValueError: Gramps ID already exists."
NotWritable == "ValueError: Database does not support writing."
NotFound == "ValueError: Cannot be used for new objects."
HandleError == "HandleError"
AttributeError == "AttributeError"
TypeError == "TypeError: 'NoneType' object is not callable"

\* except AttributeError: raise ValueError("Database does not support writing.")
ExceptAttributeError(c) == IF c.err = AttributeError THEN Raise(c, NotWritable) ELSE c

\* DbWriteBase.add_<kind>(obj, trans): allocates a missing handle and a
\* missing gramps_id, then commits
add_method(c, obj, new_handle, new_id) ==
    commit_obj(c, "add",
        [obj EXCEPT !.handle = IF @ = Blank THEN new_handle ELSE @,
                    !.gramps_id = IF @ = Blank THEN new_id ELSE @])

\* faulty variant: the back-references are written before the handle is made
AddTry_links_first(c, obj, new_handle, new_id, lookup_raises) ==
    IF ~write_surface /\ lookup_raises THEN Raise(c, AttributeError)
    ELSE LET c1 == IF obj.class = "family" THEN add_family_update_refs(c, obj) ELSE c
             obj1 == IF obj.class = "family" /\ obj.handle = Blank
                     THEN [obj EXCEPT !.handle = new_handle] ELSE obj
             c2 == IF obj.class = "family" /\ obj.handle = Blank
                   THEN Log(c1, "create_id", "family", new_handle) ELSE c1
         IN  IF c2.err # OK THEN c2
             ELSE IF ~write_surface THEN Raise(c2, TypeError)
             ELSE add_method(c2, obj1, new_handle, new_id)

\* the try block of add_object.  On a store without write methods the lookup
\* db_handle.method("add_%s") either raises AttributeError or yields None.
AddTry(c, obj, new_handle, new_id, lookup_raises) ==
    IF ~write_surface /\ lookup_raises THEN Raise(c, AttributeError)
    ELSE LET obj1 == IF obj.class = "family" /\ obj.handle = Blank
                     THEN [obj EXCEPT !.handle = new_handle] ELSE obj
             c1 == IF obj.class = "family" /\ obj.handle = Blank
                   THEN Log(c, "create_id", "family", new_handle) ELSE c
             c2 == IF obj.class = "family" THEN add_family_update_refs(c1, obj1) ELSE c1
         IN  IF c2.err # OK THEN c2
             ELSE IF ~write_surface THEN Raise(c2, TypeError)
             ELSE add_method(c2, obj1, new_handle, new_id)

\* faulty variant: fail_if_exists is ignored
add_object_unchecked(c, obj, fail_if_exists, new_handle, new_id, lookup_raises) ==
    IF readonly THEN Raise(c, Forbidden)
    ELSE ExceptAttributeError(AddTry(c, obj, new_handle, new_id, lookup_raises))

\* faulty variant: the write methods are looked for before the uniqueness checks
add_object_writable_first(c, obj, fail_if_exists, new_handle, new_id, lookup_raises) ==
    IF readonly THEN Raise(c, Forbidden)
    ELSE IF ~write_surface THEN Raise(c, NotWritable)
    ELSE LET c1 == IF fail_if_exists THEN Log(c, "has_handle", obj.class, obj.handle) ELSE c
             c2 == IF fail_if_exists THEN Log(c1, "has_gramps_id", obj.class, obj.gramps_id)
                   ELSE c1
         IN  IF fail_if_exists /\ has_handle(c, obj) THEN Raise(c1, HandleExists)
             ELSE IF fail_if_exists /\ has_gramps_id(c, obj) THEN Raise(c2, IdExists)
             ELSE ExceptAttributeError(AddTry(c2, obj, new_handle, new_id, lookup_raises))

add_object(c, obj, fail_if_exists, new_handle, new_id, lookup_raises) ==
    IF readonly THEN Raise(c, Forbidden)
    ELSE LET c1 == IF fail_if_exists THEN Log(c, "has_handle", obj.class, obj.handle) ELSE c
             c2 == IF fail_if_exists THEN Log(c1, "has_gramps_id", obj.class, obj.gramps_id)
                   ELSE c1
         IN  IF fail_if_exists /\ has_handle(c, obj) THEN Raise(c1, HandleExists)
             ELSE IF fail_if_exists /\ has_gramps_id(c, obj) THEN Raise(c2, IdExists)
             ELSE ExceptAttributeError(AddTry(c2, obj, new_handle, new_id, lookup_raises))

\* the try block of update_object
UpdateTry(c, obj_old, obj, lookup_raises, rem_order, add_order) ==
    IF ~write_surface /\ lookup_raises THEN Raise(c, AttributeError)
    ELSE LET c1 == CASE obj.class = "family" ->
                          update_family_update_refs(
                              Log(c, "get", "family", obj.handle),
                              obj_old, obj, rem_order, add_order)
                     [] obj.class = "person" ->
                          IF ~write_surface THEN Raise(c, AttributeError)
                          ELSE Log(c, "set_birth_death_index", "person", obj.handle)
                     [] OTHER -> c
         IN  IF c1.err # OK THEN c1
             ELSE IF ~write_surface THEN Raise(c1, TypeError)
             ELSE commit_obj(c1, "commit", obj)

\* faulty variant: the read-only flag is tested after the existence check
update_object_readonly_late(c, obj, lookup_raises, rem_order, add_order) ==
    LET c1 == Log(c, "has_handle", obj.class, obj.handle)
    IN  IF ~has_handle(c, obj) THEN Raise(c1, NotFound)
        ELSE IF readonly THEN Raise(c1, Forbidden)
        ELSE LET obj_old == StoreOf(c, obj.class)[obj.handle]
                 c2 == IF obj.gramps_id = Blank
                       THEN Log(c1, "get", obj.class, obj.handle) ELSE c1
                 obj1 == IF obj.gramps_id = Blank
                         THEN [obj EXCEPT !.gramps_id = obj_old.gramps_id] ELSE obj
             IN  ExceptAttributeError(
                     UpdateTry(c2, obj_old, obj1, lookup_raises, rem_order, add_order))

\* faulty variant: an unknown handle is committed as a new object
update_object_upsert(c, obj, lookup_raises, rem_order, add_order) ==
    IF readonly THEN Raise(c, Forbidden)
    ELSE LET c1 == Log(c, "has_handle", obj.class, obj.handle)
         IN  IF ~has_handle(c, obj)
             THEN IF ~write_surface THEN Raise(c1, NotWritable)
                  ELSE commit_obj(c1, "commit", obj)
             ELSE LET obj_old == StoreOf(c, obj.class)[obj.handle]
                      c2 == IF obj.gramps_id = Blank
                            THEN Log(c1, "get", obj.class, obj.handle) ELSE c1
                      obj1 == IF obj.gramps_id = Blank
                              THEN [obj EXCEPT !.gramps_id = obj_old.gramps_id] ELSE obj
                  IN  ExceptAttributeError(
                          UpdateTry(c2, obj_old, obj1, lookup_raises, rem_order, add_order))

\* faulty variant: a blank gramps_id is committed as it came
update_object_keeps_blank(c, obj, lookup_raises, rem_order, add_order) ==
    IF readonly THEN Raise(c, Forbidden)
    ELSE LET c1 == Log(c, "has_handle", obj.class, obj.handle)
         IN  IF ~has_handle(c, obj) THEN Raise(c1, NotFound)
             ELSE LET obj_old == StoreOf(c, obj.class)[obj.handle]
                  IN  ExceptAttributeError(
                          UpdateTry(c1, obj_old, obj, lookup_raises, rem_order, add_order))

update_object(c, obj, lookup_raises, rem_order, add_order) ==
    IF readonly THEN Raise(c, Forbidden)
    ELSE LET c1 == Log(c, "has_handle", obj.class, obj.handle)
         IN  IF ~has_handle(c, obj) THEN Raise(c1, NotFound)
             ELSE LET obj_old == StoreOf(c, obj.class)[obj.handle]
                      c2 == IF obj.gramps_id = Blank
                            THEN Log(c1, "get", obj.class, obj.handle) ELSE c1
                      obj1 == IF obj.gramps_id = Blank
                              THEN [obj EXCEPT !.gramps_id = obj_old.gramps_id] ELSE obj
                  IN  ExceptAttributeError(
                          UpdateTry(c2, obj_old, obj1, lookup_raises, rem_order, add_order))

-----------------------------------------------------------------------------
(* Profiles *)

\* A profile (a JSON mapping) is the set of its leaves, each under its path
\* of keys; list positions are keys "1", "2", ...  An empty mapping or list
\* nested under a key is the leaf "{}" / "[]" at that key.
EmptyMapping == {}

Field(k, v) == {[path |-> <<k>>, val |-> v]}

Under(k, m) ==
    IF m = {} THEN Field(k, "{}")
    ELSE {[path |-> <<k>> \o e.path, val |-> e.val] : e \in m}

Listed(k, ms) ==
    IF ms = <<>> THEN Field(k, "[]")
    ELSE UNION {Under(k, Under(ToString(i), ms[i])) : i \in 1..Len(ms)}

ListedValues(k, vs) ==
    IF vs = <<>> THEN Field(k, "[]")
    ELSE UNION {Under(k, Field(ToString(i), vs[i])) : i \in 1..Len(vs)}

\* m[k] = v
SetKey(m, k, v) == {e \in m : e.path[1] # k} \cup Field(k, v)

HasKey(m, path) ==
    \E e \in m : Len(e.path) >= Len(path) /\ SubSeq(e.path, 1, Len(path)) = path

\* m[k1][k2]... : the mapping nested under the path
At(m, path) ==
    {[path |-> SubSeq(e.path, Len(path) + 1, Len(e.path)), val |-> e.val] :
        e \in {x \in m : /\ Len(x.path) > Len(path)
                         /\ SubSeq(x.path, 1, Len(path)) = path}}

\* the leaf value at the path, Undefined where the mapping has no leaf
Undefined == "<undefined>"

ValueAt(m, path) ==
    IF \E e \in m : e.path = path THEN (CHOOSE e \in m : e.path = path).val
    ELSE Undefined

\* every key of the mapping, at every nesting level
Keys(m) == UNION {{SubSeq(e.path, 1, n) : n \in 1..Len(e.path)} : e \in m}

StoredHandles(kind) ==
    CASE kind = "person" -> DOMAIN person
      [] kind = "family" -> DOMAIN family
      [] kind = "event" -> DOMAIN event
      [] OTHER -> DOMAIN others[kind]

\* what a call returns: the exception that escapes it (OK if none) and its value
Returned(value) == [raised |-> OK, value |-> value]
Escaped(e) == [raised |-> e, value |-> EmptyMapping]

\* locale.translation.sgettext(x.xml_str()): the locale's string for the name
sgettext(xml_str) == "_(" \o xml_str \o ")"

\* locale.translation.ngettext("{number_of} day", "{number_of} days", n)
\*     .format(number_of=n)
ngettext_days(n) == ToString(n) \o (IF n = 1 THEN " day" ELSE " days")

\* a Date is a year here, NoDate the empty date
NoDate == 0

\* locale.date_displayer.display(date)
display(date) == IF date = NoDate THEN Blank ELSE "y" \o ToString(date)

\* Span(d1, d2).format(precision=3, dlocale=locale): the pieces of the text
Span_format(d1, d2) ==
    IF d1 = NoDate \/ d2 = NoDate THEN <<"(", "unknown", ")">>
    ELSE IF d2 < d1 THEN <<"(", "less than ", ToString(d1 - d2), " years", ")">>
    ELSE <<ToString(d2 - d1), " years">>

\* the text without the characters "(" and ")" at its ends
RECURSIVE strip(_)
strip(pieces) ==
    IF pieces = <<>> THEN Blank
    ELSE IF Head(pieces) \in {"(", ")"} THEN strip(Tail(pieces))
    ELSE IF pieces[Len(pieces)] \in {"(", ")"}
         THEN strip(SubSeq(pieces, 1, Len(pieces) - 1))
    ELSE Head(pieces) \o strip(Tail(pieces))

SEX_MALE == "M"
SEX_FEMALE == "F"
SEX_UNKNOWN == "U"

get_sex_profile(p) ==
    IF p.gender = "MALE" THEN SEX_MALE
    ELSE IF p.gender = "FEMALE" THEN SEX_FEMALE
    ELSE SEX_UNKNOWN

\* the order in which the store lists its objects
PersonOrder == <<"P1", "P2", "P3">>
FamilyOrder == <<"F1", "F2">>

\* the positions of the event references of an object that point at handle
RefsTo(obj, handle) ==
    {i \in 1..Len(obj.event_ref_list) : obj.event_ref_list[i].ref = handle}

RECURSIVE Repeat(_, _)
Repeat(x, n) == IF n = 0 THEN <<>> ELSE <<x>> \o Repeat(x, n - 1)

RECURSIVE Backlinks(_, _, _, _)
Backlinks(store, class, order, handle) ==
    IF order = <<>> THEN <<>>
    ELSE (IF Head(order) \in DOMAIN store
          THEN Repeat([class |-> class, h |-> Head(order)],
                      Cardinality(RefsTo(store[Head(order)], handle)))
          ELSE <<>>) \o Backlinks(store, class, Tail(order), handle)

\* db_handle.find_backlink_handles(handle, include_classes=["Person", "Family"]):
\* one (class, handle) pair per reference the store has recorded
find_backlink_handles(handle) ==
    Backlinks(person, "Person", PersonOrder, handle)
        \o Backlinks(family, "Family", FamilyOrder, handle)

\* get_participant_from_event: the name of the first person referring to the
\* event in the primary role
get_participant_from_event(handle) ==
    LET ps == SelectSeq(PersonOrder,
                        LAMBDA h : /\ h \in DOMAIN person
                                   /\ \E i \in RefsTo(person[h], handle) :
                                         person[h].event_ref_list[i].role = "Primary")
    IN  IF ps = <<>> THEN Blank ELSE person[ps[1]].surname

get_event_summary_from_object(ev) ==
    LET participant == get_participant_from_event(ev.handle)
        event_type == sgettext(ev.type)
    IN  IF participant = Blank THEN event_type
        ELSE event_type \o " - " \o participant

RECURSIVE max_confidence(_, _)
max_confidence(citation_list, confidence) ==
    IF citation_list = <<>> THEN confidence
    ELSE LET c == others["citation"][Head(citation_list)].confidence
         IN  max_confidence(Tail(citation_list),
                            IF c > confidence THEN c ELSE confidence)

get_rating(obj) ==
    [count |-> Len(obj.citation_list),
     confidence |-> max_confidence(obj.citation_list, 0)]

\* pd.display_event(db_handle, event)
display_event(ev) ==
    IF ev.place = Blank THEN Blank ELSE others["place"][ev.place].name

\* if cond: profile[key] = value
SetKeyIf(cond, d, key, value) == IF cond THEN SetKey(d, key, value) ELSE d

\* the entries a guarded statement adds to a profile
When(cond, entries) == IF cond THEN entries ELSE EmptyMapping

RECURSIVE get_event_profile_for_object(_, _, _, _, _)
RECURSIVE get_person_profile_for_object(_, _)
RECURSIVE get_family_profile_for_object(_, _)
RECURSIVE get_event_participants_for_handle(_)

\* try: obj = db_handle.get_<kind>_from_handle(handle)
\* except HandleError: return {}
get_event_profile_for_handle(handle, args, base_event, label, role) ==
    IF handle \notin DOMAIN event THEN EmptyMapping
    ELSE get_event_profile_for_object(event[handle], args, base_event, label, role)

get_person_profile_for_handle(handle, args) ==
    IF handle \notin DOMAIN person THEN EmptyMapping
    ELSE get_person_profile_for_object(person[handle], args)

get_family_profile_for_handle(handle, args) ==
    IF handle \notin DOMAIN family THEN EmptyMapping
    ELSE get_family_profile_for_object(family[handle], args)

\* faulty variant: a person contributes the first of its references only
PeopleEntries_first_only(handle, backref_handle) ==
    LET refs == person[backref_handle].event_ref_list
        hits == SelectSeq(refs, LAMBDA r : r.ref = handle)
    IN  [i \in 1..(IF hits = <<>> THEN 0 ELSE 1) |->
            Field("role", sgettext(hits[i].role))
                \cup Under("person", get_person_profile_for_handle(backref_handle, {}))]

\* the entries one backlink contributes: one per event reference of the
\* object that points at the event
PeopleEntries(handle, backref_handle) ==
    LET refs == person[backref_handle].event_ref_list
        hits == SelectSeq(refs, LAMBDA r : r.ref = handle)
    IN  [i \in 1..Len(hits) |->
            Field("role", sgettext(hits[i].role))
                \cup Under("person", get_person_profile_for_handle(backref_handle, {}))]

FamilyEntries(handle, backref_handle) ==
    LET refs == family[backref_handle].event_ref_list
        hits == SelectSeq(refs, LAMBDA r : r.ref = handle)
    IN  [i \in 1..Len(hits) |->
            Field("role", sgettext(hits[i].role))
                \cup Under("family", get_family_profile_for_handle(backref_handle, {}))]

\* the loop over the backlinks: seen, result["people"], result["families"]
RECURSIVE ParticipantsLoop(_, _, _, _, _)
ParticipantsLoop(handle, links, seen, people, families) ==
    IF links = <<>> THEN [people |-> people, families |-> families]
    ELSE LET l == Head(links)
         IN  IF l.h \in seen
             THEN ParticipantsLoop(handle, Tail(links), seen, people, families)
             ELSE IF l.class = "Person"
             THEN ParticipantsLoop(handle, Tail(links), seen \cup {l.h},
                                   people \o PeopleEntries(handle, l.h), families)
             ELSE ParticipantsLoop(handle, Tail(links), seen \cup {l.h},
                                   people, families \o FamilyEntries(handle, l.h))

\* return result
ParticipantsResult(result) ==
    Listed("people", result.people) \cup Listed("families", result.families)

get_event_participants_for_handle(handle) ==
    ParticipantsResult(
        ParticipantsLoop(handle, find_backlink_handles(handle), {}, <<>>, <<>>))

\* base_event: the handle of the base event, or None
get_event_profile_for_object(ev, args, base_event, label, role) ==
    LET result == Field("type", sgettext(ev.type))
                    \cup Field("date", display(ev.date))
                    \cup Field("place", display_event(ev))
                    \cup Field("summary", get_event_summary_from_object(ev))
        r1 == SetKeyIf(role # None, result, "role", role)
        r2 == r1 \cup When("all" \in args \/ "participants" \in args,
                           Under("participants",
                                 get_event_participants_for_handle(ev.handle)))
        r3 == r2 \cup When("all" \in args \/ "ratings" \in args,
                           Field("citations", ToString(get_rating(ev).count))
                             \cup Field("confidence",
                                        ToString(get_rating(ev).confidence)))
    IN  SetKeyIf(base_event # None, r3, label,
                 strip(Span_format(event[base_event].date, ev.date)))

\* get_birth_or_fallback and its like: the handle of the event, or None
get_birth_or_fallback(p) == p.birth
get_death_or_fallback(p) == p.death
get_marriage_or_fallback(f) == f.marriage
get_divorce_or_fallback(f) == f.divorce

get_birth_profile(p, args) ==
    IF get_birth_or_fallback(p) = None THEN EmptyMapping
    ELSE get_event_profile_for_object(event[get_birth_or_fallback(p)], args,
                                      None, "span", None)

get_death_profile(p, args) ==
    IF get_death_or_fallback(p) = None THEN EmptyMapping
    ELSE get_event_profile_for_object(event[get_death_or_fallback(p)], args,
                                      None, "span", None)

get_marriage_profile(f, args) ==
    IF get_marriage_or_fallback(f) = None THEN EmptyMapping
    ELSE get_event_profile_for_object(event[get_marriage_or_fallback(f)], args,
                                      None, "span", None)

get_divorce_profile(f, args) ==
    IF get_divorce_or_fallback(f) = None THEN EmptyMapping
    ELSE get_event_profile_for_object(event[get_divorce_or_fallback(f)], args,
                                      None, "span", None)

\* faulty variant: a family that lists its events forwards "families" to
\* the profiles of its members
Passed_forwards_families(args, names) ==
    {o \in names : "all" \in args \/ o \in args}
        \cup (IF names = {"ratings", "age"} /\ "events" \in args
              THEN {"families"} ELSE {})

\* faulty variant: "all" stands for no option
Passed_without_all(args, names) == {o \in names : o \in args}

\* the options a profile passes on: each appended when args has it or "all"
Passed(args, names) == {o \in names : "all" \in args \/ o \in args}

get_main_parents_family_handle(p) ==
    IF p.parent_family_list = <<>> THEN None ELSE p.parent_family_list[1]

\* lines 397-408: birth["age"] and death["age"]
age_profiles(args, birth, birth_event, death, death_event) ==
    LET aged == "all" \in args \/ "age" \in args
    IN  [birth |-> IF aged /\ birth_event # None
                   THEN SetKey(birth, "age", ngettext_days(0)) ELSE birth,
         death |-> IF aged /\ birth_event # None /\ death_event # None
                   THEN SetKey(death, "age",
                               strip(Span_format(event[birth_event].date,
                                                 event[death_event].date)))
                   ELSE death]

\* faulty variant: the birth event stays the base event whatever the options
age_base_kept(args, birth_event) == birth_event

\* lines 422-423: the base event of the listed events
age_base(args, birth_event) ==
    IF "age" \notin args /\ "all" \notin args THEN None ELSE birth_event

\* "birth": birth, "death": death
BirthAndDeath(aged) == Under("birth", aged.birth) \cup Under("death", aged.death)

get_person_profile_for_object(p, args) ==
    LET ratings == Passed(args, {"ratings"})
        birth_event == get_birth_or_fallback(p)
        death_event == get_death_or_fallback(p)
        aged == age_profiles(args, get_birth_profile(p, ratings), birth_event,
                             get_death_profile(p, ratings), death_event)
        profile0 == Field("handle", p.handle)
                      \cup Field("gramps_id", p.gramps_id)
                      \cup Field("sex", get_sex_profile(p))
                      \cup BirthAndDeath(aged)
                      \cup Field("name_given", p.first_name)
                      \cup Field("name_surname", p.surname)
        options == Passed(args, {"ratings", "age", "span", "events"})
        base_event == age_base(args, birth_event)
        profile1 ==
            profile0 \cup
            When("all" \in args \/ "events" \in args,
                 Listed("events",
                        [i \in 1..Len(p.event_ref_list) |->
                            get_event_profile_for_handle(
                                p.event_ref_list[i].ref, options, base_event, "age",
                                sgettext(p.event_ref_list[i].role))]))
        primary == get_main_parents_family_handle(p)
        other == SelectSeq(p.parent_family_list, LAMBDA h : h # primary)
    IN  profile1 \cup
        When("all" \in args \/ "families" \in args,
             Under("primary_parent_family",
                   get_family_profile_for_handle(primary, options))
             \cup Listed("other_parent_families",
                         [i \in 1..Len(other) |->
                             get_family_profile_for_handle(other[i], options)])
             \cup Listed("families",
                         [i \in 1..Len(p.family_list) |->
                             get_family_profile_for_handle(p.family_list[i], options)]))

\* lines 512-520: the family_surname entry, if any
family_surname(father, mother) ==
    IF father # EmptyMapping
    THEN IF ValueAt(father, <<"name_surname">>) # Blank
            \/ ValueAt(father, <<"name_given">>) # Blank
         THEN Field("family_surname", ValueAt(father, <<"name_surname">>))
         ELSE IF mother # EmptyMapping
         THEN Field("family_surname", ValueAt(mother, <<"name_surname">>))
         ELSE {}
    ELSE IF mother # EmptyMapping
    THEN Field("family_surname", ValueAt(mother, <<"name_surname">>))
    ELSE Field("family_surname", Blank)

\* faulty variant: the divorce gets its span without a marriage to count from
span_profiles_divorce_alone(args, marriage, marriage_event, divorce, divorce_event) ==
    LET spanned == "all" \in args \/ "span" \in args
    IN  [marriage |-> IF spanned /\ marriage_event # None
                      THEN SetKey(marriage, "span", ngettext_days(0)) ELSE marriage,
         divorce |-> IF spanned /\ divorce_event # None
                     THEN SetKey(divorce, "span", ngettext_days(0)) ELSE divorce]

\* lines 480-490: marriage["span"] and divorce["span"]
span_profiles(args, marriage, marriage_event, divorce, divorce_event) ==
    LET spanned == "all" \in args \/ "span" \in args
    IN  [marriage |-> IF spanned /\ marriage_event # None
                      THEN SetKey(marriage, "span", ngettext_days(0)) ELSE marriage,
         divorce |-> IF spanned /\ marriage_event # None /\ divorce_event # None
                     THEN SetKey(divorce, "span",
                                 strip(Span_format(event[marriage_event].date,
                                                   event[divorce_event].date)))
                     ELSE divorce]

\* lines 522-523: the base event of the listed events
span_base(args, marriage_event) ==
    IF "span" \notin args /\ "all" \notin args THEN None ELSE marriage_event

\* "father": father, "mother": mother, and the family_surname they give
FatherAndMother(father, mother) ==
    Under("father", father) \cup Under("mother", mother)
        \cup family_surname(father, mother)

\* "marriage": marriage, "divorce": divorce
MarriageAndDivorce(spanned) ==
    Under("marriage", spanned.marriage) \cup Under("divorce", spanned.divorce)

get_family_profile_for_object(f, args) ==
    LET ratings == Passed(args, {"ratings"})
        marriage_event == get_marriage_or_fallback(f)
        divorce_event == get_divorce_or_fallback(f)
        spanned == span_profiles(args, get_marriage_profile(f, ratings), marriage_event,
                                 get_divorce_profile(f, ratings), divorce_event)
        options == Passed(args, {"ratings", "age"})
        profile0 == Field("handle", f.handle)
                      \cup Field("gramps_id", f.gramps_id)
                      \cup FatherAndMother(
                              get_person_profile_for_handle(f.father_handle, options),
                              get_person_profile_for_handle(f.mother_handle, options))
                      \cup Field("relationship", sgettext(f.type))
                      \cup MarriageAndDivorce(spanned)
                      \cup Listed("children",
                                  [i \in 1..Len(f.child_ref_list) |->
                                      get_person_profile_for_handle(
                                          f.child_ref_list[i], options)])
        base_event == span_base(args, marriage_event)
    IN  profile0 \cup
        When("all" \in args \/ "events" \in args,
             Listed("events",
                    [i \in 1..Len(f.event_ref_list) |->
                        get_event_profile_for_handle(
                            f.event_ref_list[i].ref, options, base_event, "span", None)]))

\* the source of a citation is not followed here
get_citation_profile_for_handle(handle) ==
    IF handle \notin DOMAIN others["citation"] THEN EmptyMapping
    ELSE Field("gramps_id", others["citation"][handle].gramps_id)

get_media_profile_for_handle(handle) ==
    IF handle \notin DOMAIN others["media"] THEN EmptyMapping
    ELSE Field("gramps_id", others["media"][handle].gramps_id)

\* get_place_by_handle: the Place, or {} on HandleError; a store that answers
\* None for a missing handle gets None back
get_place_by_handle(handle, none_on_miss) ==
    IF handle \in DOMAIN others["place"] THEN others["place"][handle]
    ELSE IF none_on_miss THEN [class |-> "NoneType"]
    ELSE [class |-> "dict"]

\* lines 333-343: the entries of a place profile that need no walk
place_fields(place) ==
    Field("gramps_id", place.gramps_id)
        \cup Field("type", sgettext(place.type))
        \cup Field("name", place.name)
        \cup ListedValues("alternate_names", place.alternate_names)
        \cup Field("lat", IF place.lat # Blank /\ place.long # Blank
                          THEN place.lat ELSE None)
        \cup Field("long", IF place.lat # Blank /\ place.long # Blank
                           THEN place.long ELSE None)

\* lines 345-347: the locals of the parent walk
walk_start(place, none_on_miss) ==
    [place |-> place.handle, _place |-> place.handle, handle |-> None,
     parent_places_handles |-> <<>>, none_on_miss |-> none_on_miss, pc |-> "loop"]

\* faulty variant: a handle seen before does not end the walk
walk_step_unchecked(w) ==
    LET refs == others["place"][w._place].placeref_list
        handle == IF refs # <<>> THEN refs[1] ELSE w.handle
        w1 == [w EXCEPT !.handle = handle]
    IN  IF handle = None
        THEN [w1 EXCEPT !.pc = "break"]
        ELSE IF handle \notin DOMAIN others["place"]
        THEN [w1 EXCEPT !.pc = IF w.none_on_miss THEN "break" ELSE "raised"]
        ELSE [w1 EXCEPT !._place = handle,
                        !.parent_places_handles = Append(@, handle)]

\* lines 349-357: one pass of the while loop.  handle keeps its value when
\* the place has no place reference.
walk_step(w) ==
    LET refs == others["place"][w._place].placeref_list
        handle == IF refs # <<>> THEN refs[1] ELSE w.handle
        w1 == [w EXCEPT !.handle = handle]
    IN  IF handle = None \/ handle \in Range(w.parent_places_handles)
        THEN [w1 EXCEPT !.pc = "break"]
        ELSE IF handle \notin DOMAIN others["place"]
        THEN [w1 EXCEPT !.pc = IF w.none_on_miss THEN "break" ELSE "raised"]
        ELSE [w1 EXCEPT !._place = handle,
                        !.parent_places_handles = Append(@, handle)]

RECURSIVE walk_loop(_)
walk_loop(w) == IF w.pc # "loop" THEN w ELSE walk_loop(walk_step(w))

\* lines 358-367: the profile once the walk has ended
walk_result(profile0, w) ==
    IF w.pc = "raised" THEN Escaped(HandleError)
    ELSE Returned(profile0 \cup
                  Listed("parent_places",
                         [i \in 1..Len(w.parent_places_handles) |->
                             place_fields(others["place"][w.parent_places_handles[i]])]))

\* place.lat is read first: neither a dict nor None has such an attribute
get_place_profile_for_object(place, parent_places, none_on_miss) ==
    IF place.class # "place" THEN Escaped(AttributeError)
    ELSE IF ~parent_places THEN Returned(place_fields(place))
    ELSE walk_result(place_fields(place), walk_loop(walk_start(place, none_on_miss)))

get_place_profile_for_handle(handle, none_on_miss) ==
    get_place_profile_for_object(get_place_by_handle(handle, none_on_miss), TRUE,
                                 none_on_miss)

profile_for_handle(kind, handle, args, none_on_miss) ==
    CASE kind = "person" -> Returned(get_person_profile_for_handle(handle, args))
      [] kind = "family" -> Returned(get_family_profile_for_handle(handle, args))
      [] kind = "event" ->
            Returned(get_event_profile_for_handle(handle, args, None, "span", None))
      [] kind = "place" -> get_place_profile_for_handle(handle, none_on_miss)
      [] kind = "citation" -> Returned(get_citation_profile_for_handle(handle))
      [] kind = "media" -> Returned(get_media_profile_for_handle(handle))

-----------------------------------------------------------------------------
(* fix_object_dict *)

\* JSON values: strings, null, booleans, mappings (functions of their keys)
\* and lists
Str(s) == [t |-> "str", v |-> s]
Null == [t |-> "null", v |-> None]
Flag(b) == [t |-> "bool", v |-> b]
Dict(f) == [t |-> "dict", v |-> f]
List(items) == [t |-> "list", v |-> items]

\* not v
Falsy(x) ==
    \/ x.t = "null"
    \/ x.t = "str" /\ x.v = Blank
    \/ x.t = "bool" /\ ~x.v
    \/ x.t = "dict" /\ DOMAIN x.v = {}
    \/ x.t = "list" /\ x.v = <<>>

ValueError == "ValueError"

\* the type classes gramps.gen.lib has, among those a payload here can name
GrampsTypes == {"EventType", "FamilyRelType", "PlaceType", "EventRoleType",
                "NameOriginType", "SourceMediaType", "StyledTextTagType"}

\* the XML names of the predefined values
XmlNames == {"Birth", "Married", "Primary", "City"}

\* getattr(gramps.gen.lib, name) fails for a class the library does not
\* have; set_from_xml_str keeps an unknown name as a custom value; str(typ)
\* is the locale's string
xml_to_locale(gramps_type_name, string) ==
    IF gramps_type_name \notin GrampsTypes THEN Escaped(AttributeError)
    ELSE IF string \in XmlNames THEN Returned(sgettext(string))
    ELSE Returned(string)

\* the class name, or None where the code raises ValueError
_get_class_name(super_name, key_name) ==
    CASE key_name = "date" -> "Date"
      [] key_name = "media_list" -> "MediaRef"
      [] key_name = "child_ref_list" -> "ChildRef"
      [] key_name = "event_ref_list" -> "EventRef"
      [] key_name = "address_list" -> "Address"
      [] key_name = "urls" -> "Url"
      [] key_name = "lds_ord_list" -> "LdsOrd"
      [] key_name = "person_ref_list" -> "PersonRef"
      [] key_name = "surname_list" -> "Surname"
      [] key_name = "text" -> "StyledText"
      [] key_name = "place_type" -> "PlaceType"
      [] key_name = "alt_loc" -> "Location"
      [] key_name = "reporef_list" -> "RepoRef"
      [] key_name = "placeref_list" -> "PlaceRef"
      [] key_name = "tags" -> "StyledTextTag"
      [] (key_name = "name" /\ super_name = "Place") \/ key_name = "alt_names"
            -> "PlaceName"
      [] key_name \in {"primary_name", "alternate_names"} -> "Name"
      [] key_name = "attribute_list" /\ super_name = "Citation" -> "SrcAttribute"
      [] key_name = "attribute_list" -> "Attribute"
      [] OTHER -> None

\* {"_class": name, "string": xml_to_locale(name, v)}
TypeDict(gramps_type_name, x) ==
    LET string == xml_to_locale(gramps_type_name, x.v)
    IN  IF string.raised # OK THEN [raised |-> string.raised, keep |-> FALSE, value |-> Null]
        ELSE [raised |-> OK, keep |-> TRUE,
              value |-> Dict([k \in {"_class", "string"} |->
                                 IF k = "_class" THEN Str(gramps_type_name)
                                 ELSE Str(string.value)])]

Kept(x) == [raised |-> OK, keep |-> TRUE, value |-> x]

\* faulty variant: a type field is wrapped whatever it holds
as_type_always(gramps_type_name, x) ==
    [raised |-> OK, keep |-> TRUE,
     value |-> Dict([k \in {"_class", "string"} |->
                        IF k = "_class" THEN Str(gramps_type_name) ELSE x])]

\* if isinstance(v, str): d_out[k] = {...} else: d_out[k] = v
as_type(gramps_type_name, x) ==
    IF x.t = "str" THEN TypeDict(gramps_type_name, x) ELSE Kept(x)

RECURSIVE fix_object_dict(_, _)

\* what the loop body does with one item: raises, sets d_out[k] or passes
fix_item(class_name, k, x) ==
    IF k \in {"type", "place_type", "media_type", "frel", "mrel"}
       \/ (k = "name" /\ class_name = "StyledTextTag")
    THEN as_type(IF class_name = "Family" THEN class_name \o "RelType"
                 ELSE IF class_name = "RepoRef" THEN "SourceMediaType"
                 ELSE class_name \o "Type", x)
    ELSE IF k = "role" THEN as_type("EventRoleType", x)
    ELSE IF k = "origintype" THEN as_type("NameOriginType", x)
    ELSE IF k \in {"rect", "mother_handle", "father_handle", "famc"} /\ Falsy(x)
    THEN Kept(Null)
    ELSE IF x.t = "dict"
    THEN IF _get_class_name(class_name, k) = None
         THEN [raised |-> ValueError, keep |-> FALSE, value |-> Null]
         ELSE LET r == fix_object_dict(x.v, _get_class_name(class_name, k))
              IN  [raised |-> r.raised, keep |-> TRUE, value |-> Dict(r.value)]
    ELSE IF x.t = "list"
    THEN LET dicts == {i \in 1..Len(x.v) : x.v[i].t = "dict"}
             rs == [i \in dicts |->
                       IF _get_class_name(class_name, k) = None
                       THEN Escaped(ValueError)
                       ELSE fix_object_dict(x.v[i].v, _get_class_name(class_name, k))]
         IN  IF \E i \in dicts : rs[i].raised # OK
             THEN [raised |-> rs[CHOOSE i \in dicts : rs[i].raised # OK].raised,
                   keep |-> FALSE, value |-> Null]
             ELSE Kept(List([i \in 1..Len(x.v) |->
                                IF i \in dicts THEN Dict(rs[i].value) ELSE x.v[i]]))
    ELSE IF k = "complete" THEN [raised |-> OK, keep |-> FALSE, value |-> Null]
    ELSE Kept(x)

\* class_name: the name given, or None; the value is the mapping d_out
fix_object_dict(object_dict, class_name) ==
    LET name == IF class_name # None /\ class_name # Blank THEN class_name
                ELSE IF "_class" \in DOMAIN object_dict /\ object_dict["_class"].t = "str"
                THEN object_dict["_class"].v
                ELSE Blank
        items == [k \in DOMAIN object_dict |-> fix_item(name, k, object_dict[k])]
        kept == {k \in DOMAIN object_dict : items[k].keep}
    IN  IF name = Blank THEN Escaped(ValueError)
        ELSE IF \E k \in DOMAIN items : items[k].raised # OK
        THEN Escaped(items[CHOOSE k \in DOMAIN items : items[k].raised # OK].raised)
        ELSE Returned([k \in kept \cup {"_class"} |->
                          IF k \in kept THEN items[k].value ELSE Str(name)])

-----------------------------------------------------------------------------
(* get_extended_attributes *)

\* the list relations: the attribute probed with hasattr, the key of the
\* result, the store method's kind, and whether the list holds references
\* (x.ref) or handles
ExtendRelations ==
    {[attr |-> "child_ref_list", key |-> "children", kind |-> "person", ref |-> TRUE],
     [attr |-> "citation_list", key |-> "citations", kind |-> "citation", ref |-> FALSE],
     [attr |-> "event_ref_list", key |-> "events", kind |-> "event", ref |-> TRUE],
     [attr |-> "media_list", key |-> "media", kind |-> "media", ref |-> TRUE],
     [attr |-> "note_list", key |-> "notes", kind |-> "note", ref |-> FALSE],
     [attr |-> "person_ref_list", key |-> "people", kind |-> "person", ref |-> TRUE],
     [attr |-> "reporef_list", key |-> "repositories", kind |-> "repository",
      ref |-> TRUE],
     [attr |-> "tag_list", key |-> "tags", kind |-> "tag", ref |-> FALSE]}

\* faulty variant: "all" is not honoured
Requested_by_name_only(extend, name) == name \in extend

\* do_all or name in args["extend"]
Requested(extend, name) == "all" \in extend \/ name \in extend

\* args: the mapping of the request arguments; args["extend"] raises
\* KeyError when the key is missing, and the store raises HandleError for a
\* handle it does not have
get_extended_attributes(obj, args) ==
    IF "extend" \notin DOMAIN args THEN Escaped("KeyError")
    ELSE
    LET extend == args.extend
        \* the table db_handle.get_<kind>_from_handle reads
        TableOf(kind) == CASE kind = "person" -> person
                           [] kind = "family" -> family
                           [] kind = "event" -> event
                           [] OTHER -> others[kind]
        lists == {r \in ExtendRelations :
                     Requested(extend, r.attr) /\ r.attr \in DOMAIN obj}
        handles(r) == [i \in 1..Len(obj[r.attr]) |->
                          IF r.ref THEN obj[r.attr][i].ref ELSE obj[r.attr][i]]
        linked == Requested(extend, "backlinks") /\ "backlinks" \in DOMAIN obj
        groups == IF linked THEN DOMAIN obj.backlinks ELSE {}
        found ==
            /\ \A r \in lists : \A i \in DOMAIN handles(r) :
                  handles(r)[i] \in DOMAIN TableOf(r.kind)
            /\ \A c \in groups : \A i \in DOMAIN obj.backlinks[c] :
                  obj.backlinks[c][i] \in DOMAIN TableOf(c)
        keys == {r.key : r \in lists} \cup (IF linked THEN {"backlinks"} ELSE {})
    IN  IF ~found THEN Escaped(HandleError)
        ELSE Returned(
                [k \in keys |->
                    IF k = "backlinks"
                    THEN [c \in groups |->
                            [i \in DOMAIN obj.backlinks[c] |->
                                TableOf(c)[obj.backlinks[c][i]]]]
                    ELSE LET r == CHOOSE r \in lists : r.key = k
                         IN  [i \in DOMAIN handles(r) |->
                                 TableOf(r.kind)[handles(r)[i]]]])

-----------------------------------------------------------------------------
(* Incoming objects *)

HandlesOf(class) ==
    CASE class = "person" -> PersonHandles
      [] class = "family" -> FamilyHandles
      [] class = "event" -> EventHandles

IdsOf(class) ==
    CASE class = "person" -> PersonIds
      [] class = "family" -> FamilyIds
      [] class = "event" -> EventIds

FamilyObjs ==
    [class : {"family"}, handle : FamilyHandles \cup {Blank},
     gramps_id : FamilyIds \cup {Blank},
     father_handle : PersonHandles \cup {None},
     mother_handle : PersonHandles \cup {None},
     child_ref_list : SeqsUpTo(PersonHandles, MaxChildren)]

\* the families the gateway specification submits: few members, every
\* handle and gramps_id
GatewayFamilyObjs ==
    {o \in FamilyObjs : /\ o.handle \in {"F1", Blank}
                        /\ o.father_handle \in {None, "P1"}
                        /\ o.mother_handle = None
                        /\ o.child_ref_list = <<>>}

\* the families the linkage specification submits: every member choice for
\* F1; a second family (or one whose handle is still to be generated) with
\* P1 as its father; the gramps_id left to the store
LinkageFamilyObjs ==
    {o \in FamilyObjs : /\ o.gramps_id = Blank
                        /\ \/ o.handle = "F1"
                           \/ /\ o.father_handle = "P1"
                              /\ o.mother_handle = None
                              /\ o.child_ref_list = <<>>
                           \/ /\ o.handle = Blank
                              /\ o.father_handle = "P1"
                              /\ o.mother_handle = None
                              /\ o.child_ref_list = <<"P2">>}

EventObjs ==
    [class : {"event"}, handle : EventHandles \cup {Blank},
     gramps_id : EventIds \cup {Blank}]

\* a new Person, without links
NewPersonObjs ==
    [class : {"person"}, handle : {"P3", Blank}, gramps_id : {"I3", Blank},
     family_list : {<<>>}, parent_family_list : {<<>>}]

\* a stored Person as a client sends it back, gramps_id edited
EditedPersonObjs ==
    {[person[h] EXCEPT !.gramps_id = g] :
        h \in DOMAIN person \cap {"P2", "P3"}, g \in {"I1", "I3", Blank}}

-----------------------------------------------------------------------------
(* Actions *)

IsWrite(call) == call.m \in {"commit", "add"}

Writes(cs) == SelectSeq(cs, IsWrite)

\* the state a call leaves behind
Finish(c, op, obj, fail_if_exists) ==
    /\ \A h \in DOMAIN c.person : Len(c.person[h].family_list) <= MaxListLen
    /\ person' = c.person
    /\ family' = c.family
    /\ event' = c.event
    /\ calls' = c.calls
    /\ last' = [op |-> op, class |-> obj.class, handle |-> obj.handle,
                blank_id |-> (obj.gramps_id = Blank), fail_if_exists |-> fail_if_exists,
                had_handle |-> has_handle(Ctx, obj),
                had_gramps_id |-> has_gramps_id(Ctx, obj),
                old_gramps_id |-> IF has_handle(Ctx, obj)
                                  THEN StoreOf(Ctx, obj.class)[obj.handle].gramps_id
                                  ELSE Blank,
                trans |-> c.trans, err |-> c.err]
    /\ clean' = (clean /\ (c.err = OK \/ Writes(c.calls) = <<>>))
    /\ UNCHANGED <<readonly, write_surface, others, profile, walk, fixed>>

\* create_id() and find_next_<kind>_gramps_id(): any value not in use
FreshHandles(obj) ==
    IF obj.handle = Blank THEN HandlesOf(obj.class) \ DOMAIN StoreOf(Ctx, obj.class)
    ELSE {Blank}

FreshIds(obj) ==
    IF obj.gramps_id = Blank
    THEN IdsOf(obj.class) \
            {StoreOf(Ctx, obj.class)[h].gramps_id : h \in DOMAIN StoreOf(Ctx, obj.class)}
    ELSE {Blank}

LookupOutcomes == IF write_surface THEN {FALSE} ELSE BOOLEAN

\* A call starts when the previous one has returned, and only while no failed
\* call has left writes in the store (its caller's transaction is aborted then).
Idle == last.op = "none" /\ clean

AddObject(obj, fail_if_exists) ==
    \E new_handle \in FreshHandles(obj), new_id \in FreshIds(obj),
       lookup_raises \in LookupOutcomes, trans \in Transactions :
        Finish(add_object([Ctx EXCEPT !.trans = trans], obj, fail_if_exists,
                          new_handle, new_id, lookup_raises),
               "add", obj, fail_if_exists)

RemovedChildren(obj) ==
    IF obj.class = "family" /\ has_handle(Ctx, obj)
    THEN orig_set(family[obj.handle]) \ new_set(obj) ELSE {}

AddedChildren(obj) ==
    IF obj.class = "family" /\ has_handle(Ctx, obj)
    THEN new_set(obj) \ orig_set(family[obj.handle]) ELSE {}

UpdateObject(obj) ==
    \E lookup_raises \in LookupOutcomes,
       rem_order \in Orderings(RemovedChildren(obj)),
       add_order \in Orderings(AddedChildren(obj)), trans \in Transactions :
        Finish(update_object([Ctx EXCEPT !.trans = trans], obj, lookup_raises,
                             rem_order, add_order),
               "update", obj, FALSE)

\* the call returns to its caller: what was recorded about it is dropped
Return ==
    /\ last.op # "none"
    /\ last' = [op |-> "none", class |-> "none", handle |-> Blank, blank_id |-> FALSE,
                fail_if_exists |-> FALSE, had_handle |-> FALSE,
                had_gramps_id |-> FALSE, old_gramps_id |-> Blank, trans |-> None,
                err |-> OK]
    /\ calls' = <<>>
    /\ UNCHANGED <<readonly, write_surface, person, family, event, others, clean,
                   profile, walk, fixed>>

\* every stored family and its members refer to each other, and no person
\* refers to a family that does not list that person
Linked ==
    /\ \A f \in DOMAIN family :
          /\ \A h \in {family[f].father_handle, family[f].mother_handle} \ {None} :
                h \in DOMAIN person /\ f \in Range(person[h].family_list)
          /\ \A h \in Range(family[f].child_ref_list) :
                h \in DOMAIN person /\ f \in Range(person[h].parent_family_list)
    /\ \A h \in DOMAIN person :
          /\ \A f \in Range(person[h].family_list) :
                f \in DOMAIN family
                /\ h \in {family[f].father_handle, family[f].mother_handle}
          /\ \A f \in Range(person[h].parent_family_list) :
                f \in DOMAIN family /\ h \in Range(family[f].child_ref_list)

ProfileForHandle(kind, handle, args) ==
    /\ profile.kind = "none"
    /\ \E none_on_miss \in BOOLEAN :
          profile' = [kind |-> kind, handle |-> handle, args |-> args,
                      out |-> profile_for_handle(kind, handle, args, none_on_miss)]
    /\ UNCHANGED <<readonly, write_surface, person, family, event, others, calls,
                   last, clean, walk, fixed>>

\* get_place_profile_for_object with parent_places=True, pass by pass
GetExtendedAttributes(obj, args) ==
    /\ profile.kind = "none"
    /\ profile' = [kind |-> "extend", handle |-> obj.handle, args |-> args,
                   obj |-> obj, out |-> get_extended_attributes(obj, args)]
    /\ UNCHANGED <<readonly, write_surface, person, family, event, others, calls,
                   last, clean, walk, fixed>>

PlaceProfileStart(handle, none_on_miss) ==
    /\ walk.pc = "idle"
    /\ handle \in DOMAIN others["place"]
    /\ walk' = walk_start(others["place"][handle], none_on_miss)
    /\ UNCHANGED <<readonly, write_surface, person, family, event, others, calls,
                   last, clean, profile, fixed>>

PlaceWalkStep ==
    /\ walk.pc = "loop"
    /\ walk' = walk_step(walk)
    /\ UNCHANGED <<readonly, write_surface, person, family, event, others, calls,
                   last, clean, profile, fixed>>

PlaceProfileReturn ==
    /\ walk.pc \in {"break", "raised"}
    /\ profile' = [kind |-> "place", handle |-> walk.place, args |-> {},
                   out |-> walk_result(place_fields(others["place"][walk.place]), walk)]
    /\ walk' = [walk EXCEPT !.pc = "done"]
    /\ UNCHANGED <<readonly, write_surface, person, family, event, others, calls,
                   last, clean, fixed>>

\* fix_object_dict(d), then fix_object_dict applied to what it returned
FixObjectDict ==
    /\ fixed.n = 0
    /\ fixed' = [fixed EXCEPT !.n = 1, !.first = fix_object_dict(fixed.d, None)]
    /\ UNCHANGED <<readonly, write_surface, person, family, event, others, calls,
                   last, clean, profile, walk>>

FixObjectDictAgain ==
    /\ fixed.n = 1 /\ fixed.first.raised = OK
    /\ fixed' = [fixed EXCEPT !.n = 2,
                              !.second = fix_object_dict(fixed.first.value, None)]
    /\ UNCHANGED <<readonly, write_surface, person, family, event, others, calls,
                   last, clean, profile, walk>>

-----------------------------------------------------------------------------
(* Specifications *)

NoCall == [op |-> "none", class |-> "none", handle |-> Blank, blank_id |-> FALSE,
           fail_if_exists |-> FALSE, had_handle |-> FALSE, had_gramps_id |-> FALSE,
           old_gramps_id |-> Blank, trans |-> None, err |-> OK]

NoProfile == [kind |-> "none", handle |-> Blank, args |-> {},
              out |-> Returned(EmptyMapping)]

NoFix == [d |-> <<>>, n |-> 0, first |-> Returned(<<>>), second |-> Returned(<<>>)]

NoWalk == [place |-> None, _place |-> None, handle |-> None,
           parent_places_handles |-> <<>>, none_on_miss |-> FALSE, pc |-> "idle"]

StoredPlace(h, placeref_list) ==
    [class |-> "place", handle |-> h, gramps_id |-> "id-" \o h, type |-> "City",
     name |-> "name-" \o h, alternate_names |-> <<"alt-" \o h>>,
     lat |-> Blank, long |-> Blank, placeref_list |-> placeref_list]

StoredCitation(h) ==
    [class |-> "citation", handle |-> h, gramps_id |-> "id-" \o h, confidence |-> 2]

StoredMedia(h) == [class |-> "media", handle |-> h, gramps_id |-> "id-" \o h]

StoredOther(kind, h) ==
    CASE kind = "place" -> StoredPlace(h, <<>>)
      [] kind = "citation" -> StoredCitation(h)
      [] kind = "media" -> StoredMedia(h)

\* one object of each other kind
OneOfEach == [k \in OtherKinds |-> [h \in {"H1"} |-> StoredOther(k, h)]]

StoredPerson(h, id) ==
    [class |-> "person", handle |-> h, gramps_id |-> id,
     family_list |-> <<>>, parent_family_list |-> <<>>]

Persons2 == [h \in {"P1", "P2"} |-> StoredPerson(h, IF h = "P1" THEN "I1" ELSE "I2")]

Persons3 == Put(Persons2, "P3", StoredPerson("P3", "I3"))

Init ==
    /\ readonly \in BOOLEAN
    /\ write_surface \in BOOLEAN
    /\ person = Persons2
    /\ family = EmptyStore
    /\ event = EmptyStore
    /\ others = OneOfEach
    /\ calls = <<>>
    /\ last = NoCall
    /\ clean = TRUE
    /\ profile = NoProfile
    /\ walk = NoWalk
    /\ fixed = NoFix

\* the gateway, every kind of object
GatewayObjs == GatewayFamilyObjs \cup EventObjs \cup NewPersonObjs \cup EditedPersonObjs

Next ==
    \/ Idle /\ \E obj \in GatewayObjs, fail_if_exists \in BOOLEAN :
                  AddObject(obj, fail_if_exists)
    \/ Idle /\ \E obj \in GatewayObjs : UpdateObject(obj)
    \/ Return

Spec == Init /\ [][Next]_vars

\* the gateway with strict adds only (fail_if_exists = true)
NextStrict ==
    \/ Idle /\ \E obj \in GatewayObjs : AddObject(obj, TRUE)
    \/ Idle /\ \E obj \in GatewayObjs : UpdateObject(obj)
    \/ Return

SpecStrict == Init /\ [][NextStrict]_vars

\* add_object / update_object on Family objects only, every member choice,
\* followed while the store is linked
NextFamily ==
    \/ Idle /\ Linked /\ \E obj \in LinkageFamilyObjs, fail_if_exists \in BOOLEAN :
                            AddObject(obj, fail_if_exists)
    \/ Idle /\ Linked /\ \E obj \in LinkageFamilyObjs : UpdateObject(obj)
    \/ Return

InitFamily ==
    /\ readonly \in BOOLEAN
    /\ write_surface \in BOOLEAN
    /\ person \in {Persons2, Persons3}
    /\ family = EmptyStore
    /\ event = EmptyStore
    /\ others = OneOfEach
    /\ calls = <<>>
    /\ last = NoCall
    /\ clean = TRUE
    /\ profile = NoProfile
    /\ walk = NoWalk
    /\ fixed = NoFix

SpecFamily == InitFamily /\ [][NextFamily]_vars

\* the read side: persons, families and events with names, dates and event
\* references; profile lookups by handle with every set of options

ProfileOptions == {"ratings", "age", "span", "events", "families", "participants"}

ArgSets == SUBSET ProfileOptions \cup {{"all"}}

EventRef(ref, role) == [ref |-> ref, role |-> role]

ReadEvent(h, type, date, place, citation_list) ==
    [class |-> "event", handle |-> h, gramps_id |-> "id-" \o h, type |-> type,
     date |-> date, place |-> place, citation_list |-> citation_list]

ReadEvents ==
    [h \in {"E1", "E2", "E3", "E4"} |->
        CASE h = "E1" -> ReadEvent(h, "Birth", 1, "H1", <<"H1">>)
          [] h = "E2" -> ReadEvent(h, "Death", 3, Blank, <<>>)
          [] h = "E3" -> ReadEvent(h, "Marriage", 2, Blank, <<>>)
          [] h = "E4" -> ReadEvent(h, "Divorce", NoDate, Blank, <<>>)]

\* (surname, first name) of P1
NameChoices == {<<"S1", "N1">>, <<Blank, "N1">>, <<Blank, Blank>>}

\* which events P1 and F1 have: none; birth and marriage, the birth
\* referenced in two roles; all four, and a reference to no stored event;
\* death and divorce only
EventChoices == {"none", "first", "both", "second"}

\* the members of F1: father, mother, children
MemberChoices == {<<"P1", "P2", <<"P3">>>>, <<"P1", None, <<>>>>,
                  <<"P9", "P2", <<"P3">>>>, <<None, None, <<>>>>}

ReadPerson(h, gender, name, ev, family_list, parent_family_list) ==
    [class |-> "person", handle |-> h, gramps_id |-> "id-" \o h, gender |-> gender,
     surname |-> name[1], first_name |-> name[2],
     birth |-> IF ev \in {"first", "both"} THEN "E1" ELSE None,
     death |-> IF ev \in {"both", "second"} THEN "E2" ELSE None,
     event_ref_list |->
        CASE ev = "none" -> <<>>
          [] ev = "first" -> <<EventRef("E1", "Primary"), EventRef("E1", "Witness")>>
          [] ev = "both" -> <<EventRef("E1", "Primary"), EventRef("E2", "Primary"),
                              EventRef("E9", "Primary")>>
          [] ev = "second" -> <<EventRef("E2", "Primary")>>,
     family_list |-> family_list, parent_family_list |-> parent_family_list]

ReadFamily(h, members, ev) ==
    [class |-> "family", handle |-> h, gramps_id |-> "id-" \o h, type |-> "Married",
     father_handle |-> members[1], mother_handle |-> members[2],
     child_ref_list |-> members[3],
     marriage |-> IF ev \in {"first", "both"} THEN "E3" ELSE None,
     divorce |-> IF ev \in {"both", "second"} THEN "E4" ELSE None,
     event_ref_list |->
        CASE ev = "none" -> <<>>
          [] ev = "first" -> <<EventRef("E3", "Family")>>
          [] ev = "both" -> <<EventRef("E3", "Family"), EventRef("E4", "Family")>>
          [] ev = "second" -> <<EventRef("E4", "Family")>>]

ReadPersons(name, ev, members) ==
    [h \in {"P1", "P2", "P3"} |->
        CASE h = "P1" -> ReadPerson(h, "MALE", name, ev,
                                    IF members[1] = h THEN <<"F1">> ELSE <<>>, <<>>)
          [] h = "P2" -> ReadPerson(h, "FEMALE", <<"S2", "N2">>, "none",
                                    IF members[2] = h THEN <<"F1">> ELSE <<>>, <<>>)
          [] h = "P3" -> ReadPerson(h, "UNKNOWN", <<"S3", "N3">>, "none", <<>>,
                                    IF members[3] # <<>> THEN <<"F1", "F2">>
                                    ELSE <<"F2">>)]

ReadFamilies(ev, members) ==
    [h \in {"F1", "F2"} |->
        IF h = "F1" THEN ReadFamily(h, members, ev)
        ELSE ReadFamily(h, <<None, None, <<"P3">>>>, "none")]

InitProfile ==
    /\ readonly = FALSE
    /\ write_surface = TRUE
    /\ \E name \in NameChoices, ev \in EventChoices, members \in MemberChoices :
          /\ name = <<"S1", "N1">> \/ ev = "none"
          /\ person = ReadPersons(name, ev, members)
          /\ family = ReadFamilies(ev, members)
    /\ event = ReadEvents
    /\ others = OneOfEach
    /\ calls = <<>>
    /\ last = NoCall
    /\ clean = TRUE
    /\ profile = NoProfile
    /\ walk = NoWalk
    /\ fixed = NoFix

\* the handles a client asks for: stored ones and one the store does not have
AskedHandles(kind) ==
    CASE kind = "person" -> {"P1", "P2", "P3", "P9"}
      [] kind = "family" -> {"F1", "F9"}
      [] kind = "event" -> {"E1", "E3", "E9"}
      [] OTHER -> {"H1", "H2"}

NextProfile ==
    \E kind \in ProfileKinds :
        \E handle \in AskedHandles(kind),
           args \in IF kind \in OtherKinds THEN {{}} ELSE ArgSets :
            ProfileForHandle(kind, handle, args)

SpecProfile == InitProfile /\ [][NextProfile]_vars

\* the parent walk of a place profile, over every place graph
PlaceHandles == {"L1", "L2", "L3"}

\* no place reference, one to a stored place or to no stored place, or two
PlacerefLists ==
    {<<>>} \cup {<<h>> : h \in PlaceHandles \cup {"L9"}} \cup {<<"L2", "L3">>}

InitPlace ==
    /\ readonly = FALSE
    /\ write_surface = TRUE
    /\ person = Persons2
    /\ family = EmptyStore
    /\ event = EmptyStore
    /\ \E refs \in [PlaceHandles -> PlacerefLists] :
          others = [k \in OtherKinds |->
                       IF k = "place"
                       THEN [h \in PlaceHandles |-> StoredPlace(h, refs[h])]
                       ELSE OneOfEach[k]]
    /\ calls = <<>>
    /\ last = NoCall
    /\ clean = TRUE
    /\ profile = NoProfile
    /\ walk = NoWalk
    /\ fixed = NoFix

NextPlace ==
    \/ \E handle \in PlaceHandles, none_on_miss \in BOOLEAN :
          PlaceProfileStart(handle, none_on_miss)
    \/ PlaceWalkStep
    \/ PlaceProfileReturn

\* the walk runs in the calling thread: it is never suspended for ever
SpecPlace == InitPlace /\ [][NextPlace]_vars /\ WF_vars(NextPlace)

\* fix_object_dict over payloads: a mapping with or without its _class, type
\* fields as strings or as mappings, reference keys, nested mappings and
\* lists under known and unknown keys

\* the mapping with the entries whose value is given
Payload(entries) ==
    [k \in {e[1] : e \in {x \in entries : x[2] # <<>>}} |->
        (CHOOSE e \in entries : e[1] = k)[2][1]]

\* a field left out, or present with one of the values
Maybe(values) == {<<>>} \cup {<<x>> : x \in values}

EventRefPayloads ==
    {Dict(Payload({<<"ref", <<Str("E1")>>>>, <<"role", role>>, <<"_class", class>>})) :
        role \in Maybe({Str("Primary"), Str("Godfather"),
                        Dict(Payload({<<"_class", <<Str("EventRoleType")>>>>,
                                      <<"string", <<Str("Primary")>>>>}))}),
        class \in Maybe({Str("EventRef")})}

Payloads ==
    {Payload({<<"_class", class>>, <<"type", type>>, <<"father_handle", father>>,
              <<"complete", complete>>, <<"event_ref_list", event_refs>>,
              <<"name", name>>, <<"note", note>>}) :
        class \in Maybe({Str("Event"), Str("Family"), Str("Place"), Str("Person")}),
        type \in Maybe({Str("Birth"), Str("Custom"),
                        Dict(Payload({<<"_class", <<Str("EventType")>>>>,
                                      <<"string", <<Str("Birth")>>>>}))}),
        father \in Maybe({Str(Blank), Str("P1")}),
        complete \in Maybe({Flag(TRUE), List(<<>>)}),
        event_refs \in Maybe({List(<<>>)} \cup {List(<<r>>) : r \in EventRefPayloads}),
        name \in Maybe({Dict(Payload({<<"value", <<Str("Paris")>>>>}))}),
        note \in Maybe({Dict(Payload({<<"text", <<Str("x")>>>>}))})}

InitFix ==
    /\ readonly = FALSE
    /\ write_surface = TRUE
    /\ person = Persons2
    /\ family = EmptyStore
    /\ event = EmptyStore
    /\ others = OneOfEach
    /\ calls = <<>>
    /\ last = NoCall
    /\ clean = TRUE
    /\ profile = NoProfile
    /\ walk = NoWalk
    /\ \E d \in Payloads : fixed = [NoFix EXCEPT !.d = d]

NextFix == FixObjectDict \/ FixObjectDictAgain

SpecFix == InitFix /\ [][NextFix]_vars

\* get_extended_attributes over objects that carry different relation
\* lists, with and without backlinks attached, and every small set of
\* requested relations

\* obj: a family, a person, a source or a tag, each with the relation lists
\* of its class, with or without the backlinks a caller has attached
ExtendObjs ==
    LET \* what a list holds: stored handles, in either order, and one the
        \* store does not have
        HandleLists == {<<>>, <<"H1">>, <<"H2", "H1">>, <<"H1", "H9">>}
        \* backlinks, by class
        BacklinkChoices ==
            {[person |-> <<"H2", "H1">>], [person |-> <<"H1">>, family |-> <<"H1">>],
             [event |-> <<"H9">>]}
        refs(hs) == [i \in DOMAIN hs |-> [ref |-> hs[i]]]
        Obj(class, a, b) ==
            CASE class = "family" ->
                    [class |-> class, handle |-> "H1", child_ref_list |-> refs(a),
                     citation_list |-> b, event_ref_list |-> refs(b),
                     media_list |-> refs(a), note_list |-> b, tag_list |-> a]
              [] class = "person" ->
                    [class |-> class, handle |-> "H1", citation_list |-> a,
                     event_ref_list |-> refs(b), media_list |-> refs(b),
                     note_list |-> a, person_ref_list |-> refs(a), tag_list |-> b]
              [] class = "source" ->
                    [class |-> class, handle |-> "H1", media_list |-> refs(a),
                     note_list |-> b, reporef_list |-> refs(a), tag_list |-> b]
              [] class = "tag" -> [class |-> class, handle |-> "H1"]
        plain == {Obj(class, a, b) :
                     class \in {"family", "person", "source", "tag"},
                     a \in HandleLists, b \in HandleLists}
    IN  plain \cup {[backlinks |-> l] @@ o : o \in plain, l \in BacklinkChoices}

\* args without "extend", and args["extend"] with up to two of the names
ExtendArgs ==
    LET names == {r.attr : r \in ExtendRelations} \cup {"backlinks", "all"}
    IN  {<<>>} \cup {[extend |-> e] : e \in {x \in SUBSET names : Cardinality(x) <= 2}}

InitExtend ==
    /\ readonly = FALSE
    /\ write_surface = TRUE
    /\ person = [h \in {"H1", "H2"} |-> StoredPerson(h, "id-" \o h)]
    /\ family = [h \in {"H1", "H2"} |-> ReadFamily(h, <<None, None, <<>>>>, "none")]
    /\ event = [h \in {"H1", "H2"} |-> ReadEvent(h, "Birth", 1, Blank, <<>>)]
    /\ others = [k \in {"citation", "media", "note", "repository", "tag"} |->
                    [h \in {"H1", "H2"} |->
                        [class |-> k, handle |-> h, gramps_id |-> "id-" \o h]]]
    /\ calls = <<>>
    /\ last = NoCall
    /\ clean = TRUE
    /\ profile = NoProfile
    /\ walk = NoWalk
    /\ fixed = NoFix

NextExtend == \E obj \in ExtendObjs, args \in ExtendArgs : GetExtendedAttributes(obj, args)

SpecExtend == InitExtend /\ [][NextExtend]_vars

-----------------------------------------------------------------------------
(* Claims *)

Stored(class) == StoreOf([person |-> person, family |-> family, event |-> event], class)

CommittedPersons == {calls[i].h : i \in {j \in 1..Len(calls) :
                                            calls[j].m = "commit" /\ calls[j].class = "person"}}

\* C1: after successful add_object / update_object calls on Family objects,
\* starting from a linked store, every stored family's father, mother and
\* children refer back to it, and no person refers to a family that does not
\* list that person.
C1_BackReferencesAgree == clean => Linked

\* C2: adding a new family with father F1 and mother M1 puts its handle in
\* the family_list of both; an update that replaces mother M1 by M2, father
\* unchanged, removes the handle from M1's family_list, adds it to M2's and
\* leaves F1's family_list as it was (F1, M1, M2 three persons; M1 holding
\* the handle once, as the add left it).
C2_AddThenReplaceMother ==
    [][\A f \in FamilyHandles :
        /\ (/\ last'.op = "add" /\ last'.err = OK
            /\ f \notin DOMAIN family /\ f \in DOMAIN family')
           => \A h \in {family'[f].father_handle, family'[f].mother_handle} \ {None} :
                 f \in Range(person'[h].family_list)
        /\ (/\ last'.op = "update" /\ last'.err = OK /\ last'.handle = f
            /\ family[f].father_handle = family'[f].father_handle
            /\ family[f].mother_handle # family'[f].mother_handle
            /\ family[f].mother_handle # None /\ family'[f].mother_handle # None
            /\ family[f].father_handle
                  \notin {family[f].mother_handle, family'[f].mother_handle}
            /\ Count(person[family[f].mother_handle].family_list, f) = 1)
           => LET F1 == family[f].father_handle
                  M1 == family[f].mother_handle
                  M2 == family'[f].mother_handle
              IN  /\ person'[M1].family_list = RemoveFirst(person[M1].family_list, f)
                  /\ f \notin Range(person'[M1].family_list)
                  /\ person'[M2].family_list = Append(person[M2].family_list, f)
                  /\ F1 # None => person'[F1].family_list = person[F1].family_list
       ]_vars

C2_Witness ==
    /\ last.op = "update" /\ last.err = OK /\ last.handle = "F1"
    /\ family["F1"].father_handle = "P1" /\ family["F1"].mother_handle = "P3"
    /\ family["F1"].child_ref_list = <<>>
    /\ CommittedPersons = {"P2", "P3"}
    /\ person["P1"].family_list = <<"F1">>
    /\ person["P2"].family_list = <<>>
    /\ person["P3"].family_list = <<"F1">>

\* C3: a strict add (fail_if_exists) of an object whose handle or gramps_id
\* an object of the same kind already has fails, on a store that is not
\* read-only with the "already exists" error, and issues no write: the store
\* is as before.
C3_StrictAddRejects ==
    [][(last'.op = "add" /\ last'.fail_if_exists
            /\ (last'.had_handle \/ last'.had_gramps_id))
        => /\ last'.err # OK
           /\ ~readonly /\ last'.had_handle => last'.err = HandleExists
           /\ ~readonly /\ ~last'.had_handle => last'.err = IdExists
           /\ Writes(calls') = <<>>
           /\ UNCHANGED <<person, family, event>>
       ]_vars

C3_Witness ==
    /\ ~readonly /\ write_surface
    /\ last.op = "add" /\ last.fail_if_exists /\ last.class = "family"
    /\ last.had_handle /\ last.err = HandleExists
    /\ family[last.handle].father_handle = "P1"

\* C4: on a read-only store add_object and update_object answer Forbidden
\* before anything else: no store method at all is invoked.
C4_ReadonlyRejectsFirst ==
    (readonly /\ last.op # "none") => (last.err = Forbidden /\ calls = <<>>)

C4_Witness ==
    /\ readonly /\ last.op = "update" /\ last.class = "person"
    /\ last.had_handle /\ last.err = Forbidden

\* C5: update_object of a handle no stored object of that kind has fails and
\* issues no write: the store is as before.
C5_UpdateNeverCreates ==
    [][(last'.op = "update" /\ ~last'.had_handle)
        => /\ last'.err \in {Forbidden, NotFound}
           /\ Writes(calls') = <<>>
           /\ UNCHANGED <<person, family, event>>
       ]_vars

C5_Witness ==
    /\ ~readonly /\ write_surface
    /\ last.op = "update" /\ last.class = "family" /\ last.handle = "F1"
    /\ ~last.had_handle /\ last.err = NotFound
    /\ "F1" \notin DOMAIN family

\* C6: with strict adds and updates only, no two stored objects of one kind
\* have the same gramps_id.
C6_GrampsIdUnique ==
    \A class \in {"person", "family", "event"} :
        \A h1, h2 \in DOMAIN Stored(class) :
            h1 # h2 => Stored(class)[h1].gramps_id # Stored(class)[h2].gramps_id

\* C7: after a successful update the stored object's gramps_id is not blank,
\* and if the incoming gramps_id was blank it is the one the object had.
C7_BlankIdKeepsOld ==
    (last.op = "update" /\ last.err = OK)
        => /\ Stored(last.class)[last.handle].gramps_id # Blank
           /\ last.blank_id =>
                  Stored(last.class)[last.handle].gramps_id = last.old_gramps_id

C7_Witness ==
    /\ last.op = "update" /\ last.err = OK /\ last.blank_id
    /\ last.class = "event" /\ event[last.handle].gramps_id = "V2"

\* C8, as the spec states it: against a store lacking the write methods, a
\* strict add of an existing handle and an update of an unknown handle report
\* "does not support writing".
C8_NotWritableFirst ==
    /\ (~write_surface /\ last.op = "add" /\ last.fail_if_exists /\ last.had_handle)
           => last.err = NotWritable
    /\ (~write_surface /\ last.op = "update" /\ ~last.had_handle)
           => last.err = NotWritable

\* C8, amended: only the read-only flag is checked first.  Against a store
\* that is not read-only and lacks the write methods, a strict add of an
\* existing handle reports "Handle already exists" and an update of an unknown
\* handle reports "Cannot be used for new objects"; a read-only store reports
\* Forbidden in both cases.
C8_ReadonlyFirstThenChecks ==
    /\ (~write_surface /\ last.op = "add" /\ last.fail_if_exists /\ last.had_handle)
           => last.err = IF readonly THEN Forbidden ELSE HandleExists
    /\ (~write_surface /\ last.op = "update" /\ ~last.had_handle)
           => last.err = IF readonly THEN Forbidden ELSE NotFound

C8_Witness ==
    /\ ~readonly /\ ~write_surface
    /\ last.op = "add" /\ last.fail_if_exists /\ last.had_handle
    /\ last.err = HandleExists

\* C9: when a Family add or update fails because a member handle does not
\* resolve to a Person, no commit_person and no family write was issued
\* before the failure.
C9_NoWriteBeforeHandleError ==
    (last.class = "family" /\ last.err = HandleError) => Writes(calls) = <<>>

\* C10: for Person, Family, Event, Place, Citation and Media, the
\* profile-for-handle function called with a handle the store does not have
\* returns the empty mapping and raises nothing.
C10_MissingHandleGivesEmpty ==
    (profile.kind # "none" /\ profile.handle \notin StoredHandles(profile.kind))
        => profile.out = Returned(EmptyMapping)

\* the profile the last call returned
Out == profile.out.value

\* the "people" / "families" entries of the participants, in order: the
\* handle of the person or family and the role
Participants(list, key) ==
    LET m == At(Out, <<"participants", list>>)
        n == Cardinality({e.path[1] : e \in m})
    IN  [i \in 1..n |-> [h |-> ValueAt(m, <<ToString(i), key, "handle">>),
                         role |-> ValueAt(m, <<ToString(i), "role">>)]]

WithParticipants ==
    /\ profile.kind = "event" /\ profile.handle \in DOMAIN event
    /\ "all" \in profile.args \/ "participants" \in profile.args

\* C11, as the spec states it: in the participants of an event profile each
\* referencing Person or Family appears at most once.
C11_OneEntryPerEntity ==
    WithParticipants =>
        /\ \A h \in DOMAIN person :
              Len(SelectSeq(Participants("people", "person"), LAMBDA x : x.h = h)) <= 1
        /\ \A h \in DOMAIN family :
              Len(SelectSeq(Participants("families", "family"), LAMBDA x : x.h = h)) <= 1

\* C11, amended: each referencing Person or Family is visited once, however
\* many backlinks the store reports for it, and contributes one entry per
\* event reference of it that points at the event, in the order of its
\* event reference list, each with the role of that reference.
C11_OneEntryPerReference ==
    WithParticipants =>
        /\ \A h \in DOMAIN person :
              LET hits == SelectSeq(person[h].event_ref_list,
                                    LAMBDA r : r.ref = profile.handle)
                  got == SelectSeq(Participants("people", "person"), LAMBDA x : x.h = h)
              IN  got = [i \in 1..Len(hits) |-> [h |-> h, role |-> sgettext(hits[i].role)]]
        /\ \A h \in DOMAIN family :
              LET hits == SelectSeq(family[h].event_ref_list,
                                    LAMBDA r : r.ref = profile.handle)
                  got == SelectSeq(Participants("families", "family"), LAMBDA x : x.h = h)
              IN  got = [i \in 1..Len(hits) |-> [h |-> h, role |-> sgettext(hits[i].role)]]

C11_Witness ==
    /\ WithParticipants /\ profile.handle = "E1"
    /\ Participants("people", "person") =
          <<[h |-> "P1", role |-> sgettext("Primary")],
            [h |-> "P1", role |-> sgettext("Witness")]>>

NoRepeat(seq) == \A i, j \in 1..Len(seq) : i # j => seq[i] # seq[j]

\* the gramps_ids of the profiles listed under parent_places, in order
ParentPlaces ==
    LET m == At(Out, <<"parent_places">>)
        n == Cardinality({e.path[1] : e \in m})
    IN  [i \in 1..n |-> ValueAt(m, <<ToString(i), "gramps_id">>)]

\* C12: the parent walk of a place profile ends for every place graph,
\* cycles and self-references included, and no ancestor is listed twice:
\* not in the handles the walk collects, not in the parent_places returned.
C12_WalkEndsWithoutRepeats ==
    /\ [](NoRepeat(walk.parent_places_handles))
    /\ []((walk.pc = "done" /\ profile.out.raised = OK)
            => /\ NoRepeat(ParentPlaces)
               /\ ParentPlaces = [i \in 1..Len(walk.parent_places_handles) |->
                                     others["place"][walk.parent_places_handles[i]].gramps_id])
    /\ (walk.pc = "loop") ~> (walk.pc = "done")

C12_Witness ==
    /\ walk.pc = "done" /\ walk.place = "L1"
    /\ others["place"]["L1"].placeref_list = <<"L2">>
    /\ others["place"]["L2"].placeref_list = <<"L3">>
    /\ others["place"]["L3"].placeref_list = <<"L2", "L3">>
    /\ walk.parent_places_handles = <<"L2", "L3">>
    /\ ParentPlaces = <<"id-L2", "id-L3">>

\* C13: the fields (keys at every nesting level) of the person, family or
\* event profile produced with "all" include the fields of the profile of the
\* same entity produced with any set of the other options.
C13_AllIsSuperset ==
    (profile.kind \in {"person", "family", "event"} /\ "all" \notin profile.args)
        => Keys(Out) \subseteq
              Keys(profile_for_handle(profile.kind, profile.handle, {"all"}, FALSE).value)

C13_Witness ==
    /\ profile.kind = "person" /\ profile.args = {"families", "events", "span"}
    /\ HasKey(Out, <<"families", "1", "events", "1", "span">>)
    /\ HasKey(Out, <<"events", "2", "role">>)
    /\ ~HasKey(Out, <<"birth", "age">>)

\* C14: every family profile has family_surname: the father's surname if the
\* father resolves and has a surname or a given name; otherwise the mother's
\* surname if the mother resolves; otherwise the empty string.
C14_FamilySurname ==
    (profile.kind = "family" /\ profile.handle \in DOMAIN family)
        => LET f == family[profile.handle]
               father == f.father_handle
               mother == f.mother_handle
           IN  /\ HasKey(Out, <<"family_surname">>)
               /\ ValueAt(Out, <<"family_surname">>) =
                     IF /\ father \in DOMAIN person
                        /\ person[father].surname # Blank \/ person[father].first_name # Blank
                     THEN person[father].surname
                     ELSE IF mother \in DOMAIN person THEN person[mother].surname
                     ELSE Blank

\* the positions of the event references of the profiled person or family
EventPositions == 1..Len(Stored(profile.kind)[profile.handle].event_ref_list)

\* C15: in a person profile with "events" or "all", every event reference is
\* listed under events; without "age" and "all", neither a listed event nor
\* the birth or death profile has an age; with "age" or "all" and a birth
\* event, every listed event (one whose reference resolves) has the age
\* counted from the birth event.
C15_AgeGatedByAgeOnly ==
    (profile.kind = "person" /\ profile.handle \in DOMAIN person)
        => LET p == person[profile.handle]
               aged == "age" \in profile.args \/ "all" \in profile.args
               listed == "events" \in profile.args \/ "all" \in profile.args
           IN  /\ listed => \A i \in EventPositions : HasKey(Out, <<"events", ToString(i)>>)
               /\ ~aged => /\ ~HasKey(Out, <<"birth", "age">>)
                           /\ ~HasKey(Out, <<"death", "age">>)
                           /\ \A i \in EventPositions :
                                 ~HasKey(Out, <<"events", ToString(i), "age">>)
               /\ (listed /\ aged /\ p.birth # None) =>
                     \A i \in EventPositions :
                        p.event_ref_list[i].ref \in DOMAIN event =>
                           /\ HasKey(Out, <<"events", ToString(i), "age">>)
                           /\ ValueAt(Out, <<"events", ToString(i), "age">>) =
                                 strip(Span_format(event[p.birth].date,
                                                   event[p.event_ref_list[i].ref].date))

C15_Witness ==
    /\ profile.kind = "person" /\ profile.handle = "P1"
    /\ profile.args = {"events", "age"}
    /\ ValueAt(Out, <<"events", "1", "age">>) = "0 years"
    /\ ValueAt(Out, <<"events", "2", "age">>) = "2 years"
    /\ ValueAt(Out, <<"events", "3">>) = "{}"

\* C16: in a family profile with "span" or "all", a marriage without a
\* divorce has the zero span and the divorce profile is the empty mapping;
\* the divorce has a span only when marriage and divorce both resolve;
\* without "span" and "all" neither has a span.
C16_SpanOfMarriageAndDivorce ==
    (profile.kind = "family" /\ profile.handle \in DOMAIN family)
        => LET f == family[profile.handle]
               spanned == "span" \in profile.args \/ "all" \in profile.args
           IN  /\ (spanned /\ f.marriage # None /\ f.divorce = None) =>
                     /\ HasKey(Out, <<"marriage", "span">>)
                     /\ ValueAt(Out, <<"marriage", "span">>) = ngettext_days(0)
                     /\ At(Out, <<"divorce">>) = EmptyMapping
                     /\ ValueAt(Out, <<"divorce">>) = "{}"
               /\ HasKey(Out, <<"divorce", "span">>) =>
                     spanned /\ f.marriage # None /\ f.divorce # None
               /\ ~spanned => /\ ~HasKey(Out, <<"marriage", "span">>)
                              /\ ~HasKey(Out, <<"divorce", "span">>)

C16_Witness ==
    /\ profile.kind = "family" /\ profile.handle = "F1" /\ profile.args = {"span"}
    /\ family["F1"].marriage = "E3" /\ family["F1"].divorce = None
    /\ ValueAt(Out, <<"marriage", "span">>) = "0 days"
    /\ ValueAt(Out, <<"divorce">>) = "{}"

\* C17: fix_object_dict applied to what fix_object_dict returned for an
\* accepted payload raises nothing and returns the same payload.
C17_FixIsIdempotent ==
    fixed.n = 2 => fixed.second = fixed.first

C17_Witness ==
    /\ fixed.n = 2
    /\ DOMAIN fixed.d = {"_class", "type", "father_handle", "complete",
                         "event_ref_list", "name"}
    /\ fixed.d["_class"] = Str("Place")
    /\ fixed.d["type"] = Str("Birth") /\ fixed.d["father_handle"] = Str(Blank)
    /\ fixed.d["event_ref_list"].v # <<>>
    /\ DOMAIN fixed.d["event_ref_list"].v[1].v = {"ref", "role"}
    /\ fixed.d["event_ref_list"].v[1].v["role"] = Str("Primary")
    /\ fixed.first.value["type"].v["string"] = Str(sgettext("Birth"))
    /\ fixed.first.value["event_ref_list"].v[1].v["_class"] = Str("EventRef")
    /\ fixed.first.value["name"].v["_class"] = Str("PlaceName")
    /\ fixed.first.value["father_handle"] = Null
    /\ "complete" \notin DOMAIN fixed.first.value

\* the handles of the persons committed by the last call, in order
CommitSeq(cs) ==
    LET ps == SelectSeq(cs, LAMBDA l : l.m = "commit" /\ l.class = "person")
    IN  [i \in 1..Len(ps) |-> ps[i].h]

\* the commits of _fix_parent_handles for one parent role
ParentCommits(orig_handle, new_handle) ==
    IF orig_handle = new_handle THEN <<>>
    ELSE (IF orig_handle # None THEN <<orig_handle>> ELSE <<>>)
            \o (IF new_handle # None THEN <<new_handle>> ELSE <<>>)

\* a Family update that succeeded ends this step
FamilyUpdated(f) ==
    /\ last'.op = "update" /\ last'.class = "family" /\ last'.err = OK
    /\ last'.handle = f

\* C18: a successful update_object on a Family commits the persons in the
\* order: old father, new father (when the father changes), old mother, new
\* mother (when the mother changes), the children dropped, the children new
\* in the family; the family's own commit comes last; every commit is given
\* the transaction object the caller supplied.
C18_LinkageOrder ==
    [][\A f \in FamilyHandles :
        FamilyUpdated(f) =>
            LET parents == ParentCommits(family[f].father_handle, family'[f].father_handle)
                             \o ParentCommits(family[f].mother_handle,
                                              family'[f].mother_handle)
                removed == orig_set(family[f]) \ new_set(family'[f])
                added == new_set(family'[f]) \ orig_set(family[f])
                commits == CommitSeq(calls')
                n == Len(parents)
                r == Cardinality(removed)
            IN  /\ Len(commits) = n + r + Cardinality(added)
                /\ SubSeq(commits, 1, n) = parents
                /\ Range(SubSeq(commits, n + 1, n + r)) = removed
                /\ Range(SubSeq(commits, n + r + 1, Len(commits))) = added
                /\ calls'[Len(calls')] =
                      [m |-> "commit", class |-> "family", h |-> f, trans |-> last'.trans]
                /\ \A i \in 1..Len(calls') :
                      IsWrite(calls'[i]) =>
                          /\ calls'[i].trans = last'.trans
                          /\ calls'[i].class = "family" => i = Len(calls')
       ]_vars

C18_Witness ==
    /\ last.op = "update" /\ last.class = "family" /\ last.err = OK
    /\ last.trans = "T2"
    /\ CommitSeq(calls) = <<"P1", "P1", "P2", "P3">>
    /\ family[last.handle].mother_handle = "P1"
    /\ family[last.handle].child_ref_list = <<"P3">>

\* the persons that enter or leave a role of the family in an update
Changed(old, new) ==
    (Range(ParentCommits(old.father_handle, new.father_handle))
        \cup Range(ParentCommits(old.mother_handle, new.mother_handle))
        \cup (orig_set(old) \ new_set(new))
        \cup (new_set(new) \ orig_set(old)))

\* C19, as the spec states it: a father or mother whose handle is the same
\* in the stored and the incoming family, and a child in both child
\* reference lists, is neither modified nor committed.
C19_SameHandleUntouched ==
    [][\A f \in FamilyHandles :
        FamilyUpdated(f) =>
            \A h \in DOMAIN person :
                (\/ h = family[f].father_handle /\ h = family'[f].father_handle
                 \/ h = family[f].mother_handle /\ h = family'[f].mother_handle
                 \/ h \in orig_set(family[f]) \cap new_set(family'[f]))
                    => /\ h \notin Range(CommitSeq(calls'))
                       /\ person'[h] = person[h]
       ]_vars

\* C19, amended: update_object on a Family commits exactly the persons that
\* enter or leave a role (father, mother, child) of the family, and modifies
\* no other person; a person all of whose roles stay is neither modified nor
\* committed, while a father or mother with the same handle in the stored
\* and the incoming family is committed when that person enters or leaves
\* another role; an update that changes no member handle issues no
\* commit_person.
C19_OnlyChangedMembers ==
    [][\A f \in FamilyHandles :
        FamilyUpdated(f) =>
            /\ Range(CommitSeq(calls')) = Changed(family[f], family'[f])
            /\ \A h \in DOMAIN person :
                  h \notin Changed(family[f], family'[f]) => person'[h] = person[h]
            /\ (/\ family[f].father_handle = family'[f].father_handle
                /\ family[f].mother_handle = family'[f].mother_handle
                /\ orig_set(family[f]) = new_set(family'[f]))
                  => CommitSeq(calls') = <<>>
       ]_vars

C19_Witness ==
    /\ last.op = "update" /\ last.class = "family" /\ last.err = OK
    /\ family[last.handle].father_handle = "P1"
    /\ family[last.handle].mother_handle = "P2"
    /\ family[last.handle].child_ref_list = <<"P3">>
    /\ CommitSeq(calls) = <<"P2">>
    /\ person["P1"].family_list = <<last.handle>>
    /\ person["P3"].parent_family_list = <<last.handle>>

\* a Family without handle has been added
FamilyAddedBlank ==
    /\ last.op = "add" /\ last.class = "family" /\ last.err = OK
    /\ last.handle = Blank

\* C20: add_object on a Family without handle makes the handle first; the
\* handle put into each parent's family_list and each child's
\* parent_family_list is not empty and is the one under which the family is
\* added; the person commits come before the family's add.
C20_HandleBeforeLinks ==
    FamilyAddedBlank =>
        LET h == calls[Len(calls)].h
            made == {i \in 1..Len(calls) : calls[i].m = "create_id"}
        IN  /\ calls[Len(calls)].m = "add" /\ calls[Len(calls)].class = "family"
            /\ h # Blank /\ h \in DOMAIN family /\ family[h].handle = h
            /\ made # {} /\ \A i \in made : calls[i].h = h
            /\ \A i \in 1..Len(calls) :
                  (calls[i].m = "commit" /\ calls[i].class = "person") =>
                      /\ \E j \in made : j < i
                      /\ i < Len(calls)
                      /\ h \in Range(person[calls[i].h].family_list)
                                  \cup Range(person[calls[i].h].parent_family_list)
            /\ \A p \in {family[h].father_handle, family[h].mother_handle} \ {None} :
                  h \in Range(person[p].family_list)
            /\ \A p \in Range(family[h].child_ref_list) :
                  h \in Range(person[p].parent_family_list)
            /\ \A p \in DOMAIN person :
                  Blank \notin Range(person[p].family_list)
                                  \cup Range(person[p].parent_family_list)

C20_Witness ==
    /\ FamilyAddedBlank
    /\ CommitSeq(calls) = <<"P1", "P2">>
    /\ calls[Len(calls)].h = "F2"
    /\ family["F2"].father_handle = "P1"
    /\ family["F2"].child_ref_list = <<"P2">>
    /\ "F2" \in Range(person["P1"].family_list)
    /\ "F2" \in Range(person["P2"].parent_family_list)


\* C21: get_extended_attributes is a flat, one-level expansion. Whenever it
\* returns, each list relation that is requested (by name or by "all") and
\* that the object has is in the result under its key, holding the stored
\* objects of the relation's handles in list order; the other relations are
\* absent; backlinks, when requested and attached, hold the stored objects
\* of each class in list order; and no object of the result carries an
\* expansion of its own.
C21_FlatOneLevel ==
    (profile.kind = "extend" /\ profile.out.raised = OK) =>
        LET obj == profile.obj
            result == profile.out.value
            asked(name) == "all" \in profile.args.extend \/ name \in profile.args.extend
            handle(r, i) == IF r.ref THEN obj[r.attr][i].ref ELSE obj[r.attr][i]
            stored(kind) == CASE kind = "person" -> person
                              [] kind = "family" -> family
                              [] kind = "event" -> event
                              [] OTHER -> others[kind]
            linked == asked("backlinks") /\ "backlinks" \in DOMAIN obj
        IN  /\ DOMAIN result \subseteq {r.key : r \in ExtendRelations} \cup {"backlinks"}
            /\ \A r \in ExtendRelations :
                  IF asked(r.attr) /\ r.attr \in DOMAIN obj
                  THEN /\ r.key \in DOMAIN result
                       /\ DOMAIN result[r.key] = DOMAIN obj[r.attr]
                       /\ \A i \in DOMAIN obj[r.attr] :
                             /\ result[r.key][i] = stored(r.kind)[handle(r, i)]
                             /\ result[r.key][i].class = r.kind
                             /\ result[r.key][i].handle = handle(r, i)
                             /\ "extended" \notin DOMAIN result[r.key][i]
                  ELSE r.key \notin DOMAIN result
            /\ IF linked
               THEN /\ "backlinks" \in DOMAIN result
                    /\ DOMAIN result["backlinks"] = DOMAIN obj.backlinks
                    /\ \A c \in DOMAIN obj.backlinks :
                          /\ DOMAIN result["backlinks"][c] = DOMAIN obj.backlinks[c]
                          /\ \A i \in DOMAIN obj.backlinks[c] :
                                /\ result["backlinks"][c][i]
                                      = stored(c)[obj.backlinks[c][i]]
                                /\ result["backlinks"][c][i].class = c
                                /\ result["backlinks"][c][i].handle = obj.backlinks[c][i]
                                /\ "extended" \notin DOMAIN result["backlinks"][c][i]
               ELSE "backlinks" \notin DOMAIN result

\* "all" asked of a family-like object with two children: children are
\* listed in list order, people (a relation the object lacks) are not
C21_Witness ==
    /\ profile.kind = "extend"
    /\ profile.out.raised = OK
    /\ "extend" \in DOMAIN profile.args
    /\ profile.args.extend = {"all"}
    /\ profile.obj.class = "family"
    /\ "backlinks" \in DOMAIN profile.obj
    /\ Len(profile.obj.child_ref_list) = 2
    /\ "children" \in DOMAIN profile.out.value
    /\ Len(profile.out.value["children"]) = 2
    /\ profile.out.value["children"][1].handle = "H2"
    /\ "people" \notin DOMAIN profile.out.value
    /\ "backlinks" \in DOMAIN profile.out.value


\* C22: person and family profile assembly ends on every object graph,
\* cyclic ones included. No profile nested in another one expands families
\* or participants: the keys "families", "primary_parent_family",
\* "other_parent_families" and "participants" occur at the top level of the
\* profile asked for and nowhere below it (the "families" list of an event's
\* participants, which is no expansion of a person, apart), so a person
\* nested in a family never lists its families again, and no entry of a
\* profile lies deeper than eight keys.
C22_NestedProfilesDoNotExpand ==
    profile.kind \in {"person", "family", "event"} =>
        \A e \in Out :
            /\ Len(e.path) <= 8
            /\ \A n \in 2..Len(e.path) :
                  \/ e.path[n] \notin {"families", "primary_parent_family",
                                       "other_parent_families", "participants"}
                  \/ e.path[n] = "families" /\ e.path[n - 1] = "participants"

\* the profile of P1 with every option, P1 being the father of F1 and F1 a
\* family of P1: P1 is profiled again inside F1, without its families
C22_Witness ==
    /\ profile.kind = "person"
    /\ profile.handle = "P1"
    /\ profile.args = {"all"}
    /\ "F1" \in DOMAIN family
    /\ family["F1"].father_handle = "P1"
    /\ person["P1"].family_list = <<"F1">>
    /\ ValueAt(Out, <<"families", "1", "father", "handle">>) = "P1"
    /\ ValueAt(Out, <<"families", "1", "children", "1", "handle">>) = "P3"
    /\ ~HasKey(Out, <<"families", "1", "father", "families">>)


\* C23: starting from a store where no person list holds a handle twice,
\* after successful add_object / update_object calls on Family objects no
\* person's family_list and no person's parent_family_list holds the same
\* family handle more than once.
C23_NoRepeatedHandle ==
    clean => \A h \in DOMAIN person :
                /\ NoRepeat(person[h].family_list)
                /\ NoRepeat(person[h].parent_family_list)

=============================================================================


